---- MODULE Spec2Model ----
(***************************************************************************)
(* A model of the third-party build orchestrator                          *)
(* (python/yugabyte_db_thirdparty/builder.py, cmd_line_args.py and        *)
(* build_definitions/boost.py): the Builder's scheduling of build types    *)
(* and dependencies, its rebuild decision from build stamps, and the      *)
(* files (git state, stamps, source and output directories) it reads and  *)
(* writes.                                                                 *)
(***************************************************************************)
EXTENDS Integers, Sequences, FiniteSets, TLC

\* ------------------------------------------------------------------ bounds

\* How many times the orchestrator process is started in one behaviour.
MaxRuns == 2
\* How many edit / stage / commit operations the developer performs in all.
MaxEnvOps == 1
\* File contents are the versions 0..MaxContent.
MaxContent == 1
\* How many steps (downloads, builds) fail in one behaviour.
MaxFailures == 1
\* How many names an include list or a skip list holds, where all lists are tried.
MaxNames == 2
\* The compile commands one compile_commands.json holds, at most.
MaxCommands == 2
\* The lines bootstrap.sh leaves in project-config.jam, at most.
MaxLines == 2

\* ------------------------------------------- build types and build groups

BUILD_GROUP_COMMON == "build_group_common"
BUILD_GROUP_INSTRUMENTED == "build_group_instrumented"
BUILD_TYPE_COMMON == "common"
BUILD_TYPE_UNINSTRUMENTED == "uninstrumented"
BUILD_TYPE_ASAN == "asan"
BUILD_TYPE_TSAN == "tsan"
BUILD_TYPES ==
    <<BUILD_TYPE_COMMON, BUILD_TYPE_UNINSTRUMENTED, BUILD_TYPE_ASAN, BUILD_TYPE_TSAN>>

None == "None"

Range(s) == {s[i] : i \in 1..Len(s)}

\* The position of a build type in BUILD_TYPES.
BuildTypeIndex(bt) == CHOOSE i \in 1..Len(BUILD_TYPES) : BUILD_TYPES[i] = bt

\* ------------------------------------------------------------ the catalog

\* self.dependencies: the catalog the scheduler walks, in registration order.
\* Four entries of the registration list stand for the whole list: one of the
\* COMMON group, the two dependencies defined by the module llvm1x_libcxx, and
\* boost.
dependencies == <<"zlib", "llvm1x_libcxxabi", "llvm1x_libcxx", "boost">>

DepNames == Range(dependencies)

\* dep.build_group, set by each recipe's constructor.
build_group(dep) ==
    IF dep = "zlib" THEN BUILD_GROUP_COMMON ELSE BUILD_GROUP_INSTRUMENTED

\* dep.__class__.__module__ without its package: the recipe module of a dependency.
module_name_final(dep) ==
    CASE dep = "zlib" -> "zlib_dependency"
      [] dep = "llvm1x_libcxxabi" -> "llvm1x_libcxx"
      [] dep = "llvm1x_libcxx" -> "llvm1x_libcxx"
      [] OTHER -> "boost"

\* ------------------------------------------------------ tracked input files

MAIN_PY == "python/yugabyte_db_thirdparty/yb_build_thirdparty_main.py"
BUILD_SH == "build_thirdparty.sh"
RecipeFile(m) == <<"python/build_definitions", m>>

\* input_files_for_stamp without the recipe module of the dependency.
input_files_for_stamp_without_recipe(dep) == {<<MAIN_PY>>, <<BUILD_SH>>}

\* input_files_for_stamp of get_build_stamp_for_dependency.
input_files_for_stamp(dep) ==
    {<<MAIN_PY>>, <<BUILD_SH>>, RecipeFile(module_name_final(dep))}

\* The files of the repository that a stamp may depend on.
Files == {<<MAIN_PY>>, <<BUILD_SH>>} \cup {RecipeFile(module_name_final(d)) : d \in DepNames}
Contents == 0..MaxContent

\* The files the developer edits in the behaviours checked: a file every stamp
\* depends on, the recipe of one dependency and the recipe two dependencies share.
EditedFiles == {<<BUILD_SH>>, RecipeFile("boost"), RecipeFile("llvm1x_libcxx")}

\* ------------------------------------------------------------------ state

VARIABLES
    \* the machine and the command line
    platform,                 \* platform.system(): what is_linux() / is_macos() read
    args,                     \* the argparse namespace parse_cmd_line_args returns
    single_compiler_type,     \* compiler_choice.single_compiler_type
    llvm_major_version,       \* compiler_choice.get_llvm_major_version()
    dep_should_build,         \* dep.should_build(builder), per dependency
    dep_dir_name,             \* dep.dir_name, per dependency (<<>> is None)
    dep_additional_flags,     \* dep.get_additional_*_flags(builder), per dependency
    dep_archive_name,         \* dep.get_archive_name(), per dependency (<<>> is None)
    ubsan_lib_exists,         \* os.path.exists of the UBSAN library of the compiler
    \* the Builder process
    pc,                       \* where the orchestrator process is
    run_no,                   \* how many times the process was started
    selected_dependencies,    \* self.selected_dependencies
    build_type,               \* self.build_type
    build_types,              \* run(): the build types still to loop over
    dep_idx,                  \* build_one_build_type: position in selected_dependencies
    \* the file system
    git,                      \* the repository holding the tracked input files
    stamps,                   \* the stamp file of each (dependency, build type)
    src_dirs,                 \* the dependencies whose source directory exists
    out_dirs,                 \* the installed/<build type> directories prepared
    installed,                \* lib, include and lib64 of each output directory
    env_ops,                  \* developer operations performed so far
    failures,                 \* downloads and builds that failed so far
    \* what the run did (recorded for the properties)
    log,                      \* the run-level log lines
    events,                   \* the per-dependency steps of this run, in order
    executed,                 \* the build types this run entered, in order
    run_git,                  \* the repository as this run found it when it started
    prev_run,                 \* how the previous run ended, what it built, its flags
    env_changed,              \* a developer operation happened since this run started
    built_on,                 \* per pair: the stamp its latest build was decided on
    \* the flags of the Builder
    flags,                    \* the seven flag lists of the Builder
    additional_allowed_shared_lib_paths,   \* self.additional_allowed_shared_lib_paths
    set_order,                \* per build type: how set([COMMON, build type]) iterates
    \* the catalog
    catalog,                  \* self.dependencies
    \* the license manifest and the environment of the process
    fossa_modules,            \* self.fossa_modules
    manifest,                 \* the file fossa_modules.yml
    environ,                  \* os.environ, as far as the build steps touch it
    saved_env_vars,           \* what the EnvVarContext entered for a build puts back
    build_call                \* the build_with_cmake or build_with_configure call under way

vars == <<platform, args, single_compiler_type, llvm_major_version, dep_should_build,
          dep_dir_name, dep_additional_flags, dep_archive_name, ubsan_lib_exists,
          pc, run_no, selected_dependencies, build_type, build_types, dep_idx,
          git, stamps, src_dirs, out_dirs, installed, env_ops, failures,
          log, events, executed, run_git, prev_run, env_changed, built_on,
          flags, additional_allowed_shared_lib_paths, set_order,
          fossa_modules, manifest, environ, saved_env_vars, build_call, catalog>>

env_vars == <<environ, saved_env_vars, build_call>>
flag_vars == <<flags, additional_allowed_shared_lib_paths, set_order>>
input_vars == <<platform, args, single_compiler_type, llvm_major_version, dep_should_build,
                dep_dir_name, dep_additional_flags, dep_archive_name, ubsan_lib_exists>>
fs_vars == <<git, stamps, src_dirs, out_dirs, installed, env_ops, failures>>

\* ------------------------------------------------------ platform, compiler

is_linux == platform = "Linux"
is_macos == platform = "Darwin"

\* CompilerChoice.use_only_clang
use_only_clang == is_macos \/ single_compiler_type = "clang"

\* CompilerChoice.use_only_gcc
use_only_gcc == single_compiler_type = "gcc"

\* CompilerChoice.building_with_clang
building_with_clang(bt) ==
    IF use_only_gcc THEN FALSE
    ELSE IF use_only_clang THEN TRUE
    ELSE bt \in {BUILD_TYPE_ASAN, BUILD_TYPE_TSAN}

\* CompilerChoice.using_linuxbrew: the Linuxbrew-based build is the one with both
\* GCC and Clang.
using_linuxbrew == is_linux /\ single_compiler_type = None

\* self.toolchain: --toolchain is not among the arguments carried here.
toolchain_type == None

\* populate_dependencies: the entries of every platform that come first.
CatalogHead ==
    <<"zlib_dependency", "lz4", "openssl", "libev", "rapidjson", "squeasel", "curl",
      "hiredis", "cqlsh", "redis_cli", "flex", "bison", "libedit", "openldap">>

\* populate_dependencies: the entries of every platform that come last.
CatalogTail ==
    <<"icu4c", "protobuf", "crypt_blowfish", "boost", "gflags", "glog", "gperftools",
      "gmock", "snappy", "crcutil", "libcds", "libuv", "cassandra_cpp_driver">>

\* populate_dependencies: the libc++ of a standalone LLVM 7 toolchain.
standalone_llvm7_toolchain == toolchain_type = "llvm7"

\* populate_dependencies taking the LLVM 1x dependencies for every clang-only build.
has_llvm1x_dependencies_any_version == use_only_clang

\* populate_dependencies: the condition of the LLVM 1x dependencies.
has_llvm1x_dependencies ==
    /\ use_only_clang
    /\ llvm_major_version # <<>>
    /\ llvm_major_version[1] >= 10

\* Builder.populate_dependencies: the names of self.dependencies, in order.
populate_dependencies ==
    CatalogHead
    \o (IF is_linux
        THEN <<"libuuid">>
             \o (IF standalone_llvm7_toolchain THEN <<"llvm7_libcxx">> ELSE <<>>)
             \o (IF has_llvm1x_dependencies
                 THEN <<"llvm1x_libunwind", "llvm1x_libcxxabi", "llvm1x_libcxx">>
                 ELSE <<"libunwind">>)
             \o <<"libbacktrace">>
        ELSE <<>>)
    \o CatalogTail

\* ------------------------------------------------------------ the flags

\* ASAN flags without the undefined-behaviour sanitizer.
ASAN_FLAGS_address_only == <<"-fsanitize=address", "-DADDRESS_SANITIZER">>

ASAN_FLAGS == <<"-fsanitize=address", "-fsanitize=undefined", "-DADDRESS_SANITIZER">>
TSAN_FLAGS == <<"-fsanitize=thread", "-DTHREAD_SANITIZER">>

PLACEHOLDER_RPATH == "/tmp/making_sure_we_have_enough_room_to_set_rpath_later"
get_rpath_flag(path) == "-Wl,-rpath," \o path

\* os.path.join(self.fs_layout.tp_installed_dir, component, subdir)
InstalledDir(component, subdir) == "installed/" \o component \o "/" \o subdir

linuxbrew_lib_dir == "linuxbrew/lib"
compiler_rt_lib_dir == "clang/lib/linux"
ubsan_lib_name == "clang_rt.ubsan_minimal-x86_64"

\* The flag lists before the first init_flags of a process.
NoFlags ==
    [preprocessor_flags |-> <<>>, ld_flags |-> <<>>, executable_only_ld_flags |-> <<>>,
     compiler_flags |-> <<>>, c_flags |-> <<>>, cxx_flags |-> <<>>, libs |-> <<>>]

\* The flag state of a Builder: the seven lists and the set of allowed paths.
FlagState(fl, allowed) ==
    [preprocessor_flags |-> fl.preprocessor_flags, ld_flags |-> fl.ld_flags,
     executable_only_ld_flags |-> fl.executable_only_ld_flags,
     compiler_flags |-> fl.compiler_flags, c_flags |-> fl.c_flags,
     cxx_flags |-> fl.cxx_flags, libs |-> fl.libs,
     additional_allowed_shared_lib_paths |-> allowed]

\* The seven lists of a flag state.
FlagLists(b) ==
    [preprocessor_flags |-> b.preprocessor_flags, ld_flags |-> b.ld_flags,
     executable_only_ld_flags |-> b.executable_only_ld_flags,
     compiler_flags |-> b.compiler_flags, c_flags |-> b.c_flags,
     cxx_flags |-> b.cxx_flags, libs |-> b.libs]

\* Builder.add_include_path
add_include_path(b, include_path) ==
    LET cmd_line_arg == "-I" \o include_path IN
    [b EXCEPT !.preprocessor_flags = Append(@, cmd_line_arg),
              !.compiler_flags = Append(@, cmd_line_arg)]

\* An add_rpath that adds its flag only.
add_rpath_flag_only(b, path) ==
    [b EXCEPT !.ld_flags = Append(@, get_rpath_flag(path))]

\* Builder.add_rpath
add_rpath(b, path) ==
    [b EXCEPT !.ld_flags = Append(@, get_rpath_flag(path)),
              !.additional_allowed_shared_lib_paths = @ \cup {path}]

\* Builder.prepend_rpath
prepend_rpath(b, path) ==
    [b EXCEPT !.ld_flags = <<get_rpath_flag(path)>> \o @,
              !.additional_allowed_shared_lib_paths = @ \cup {path}]

\* Builder.add_lib_dir_and_rpath
add_lib_dir_and_rpath(b, lib_dir) ==
    add_rpath([b EXCEPT !.ld_flags = Append(@, "-L" \o lib_dir)], lib_dir)

\* A prepend_lib_dir_and_rpath that adds at the end of the linker flags.
prepend_lib_dir_and_rpath_at_end(b, lib_dir) ==
    add_rpath([b EXCEPT !.ld_flags = Append(@, "-L" \o lib_dir)], lib_dir)

\* Builder.prepend_lib_dir_and_rpath
prepend_lib_dir_and_rpath(b, lib_dir) ==
    prepend_rpath([b EXCEPT !.ld_flags = <<"-L" \o lib_dir>> \o @], lib_dir)

\* Builder.add_linuxbrew_flags
add_linuxbrew_flags(b) ==
    IF using_linuxbrew
    THEN add_lib_dir_and_rpath(
             [b EXCEPT !.ld_flags =
                  Append(@, " -Wl,-dynamic-linker=" \o linuxbrew_lib_dir \o "/ld.so")],
             linuxbrew_lib_dir)
    ELSE b

\* set([BUILD_TYPE_COMMON, self.build_type]) as the for loop iterates over it:
\* one element under COMMON, else the two in the order the string hashes of the
\* process give.
include_dir_components(bt, order) ==
    IF bt = BUILD_TYPE_COMMON THEN <<BUILD_TYPE_COMMON>>
    ELSE IF order = "common_first" THEN <<BUILD_TYPE_COMMON, bt>>
    ELSE <<bt, BUILD_TYPE_COMMON>>

SetOrders == {"common_first", "common_last"}

\* init_compiler_independent_flags: the body of its for loop, for one component.
AddInstalledDirs(b, component) ==
    add_lib_dir_and_rpath(add_include_path(b, InstalledDir(component, "include")),
                          InstalledDir(component, "lib"))

RECURSIVE AddInstalledDirsOfAll(_, _)
\* init_compiler_independent_flags: its for loop over the components.
AddInstalledDirsOfAll(b, components) ==
    IF components = <<>> THEN b
    ELSE AddInstalledDirsOfAll(AddInstalledDirs(b, Head(components)), Tail(components))

\* init_compiler_independent_flags that keeps the lists it finds.
init_compiler_independent_flags_keeping_lists(b, bt, order) ==
    LET b2 == AddInstalledDirsOfAll(add_linuxbrew_flags(b), include_dir_components(bt, order))
        b3 == [b2 EXCEPT !.compiler_flags =
                   @ \o b2.preprocessor_flags
                     \o <<"-fno-omit-frame-pointer", "-fPIC", "-O2", "-Wall">>]
        b4 == IF is_linux THEN add_rpath(b3, PLACEHOLDER_RPATH)
              ELSE IF is_macos
              THEN [b3 EXCEPT !.cxx_flags = Append(@, "-stdlib=libc++"),
                              !.ld_flags = @ \o <<"-lc++", "-lc++abi",
                                                  "-Wl,-headerpad_max_install_names">>,
                              !.compiler_flags = Append(@, "-mmacosx-version-min=10.14")]
              ELSE b3
        b5 == [b4 EXCEPT !.cxx_flags = @ \o <<"-std=c++14", "-frtti">>]
        b6 == IF bt = BUILD_TYPE_ASAN
              THEN [b5 EXCEPT !.compiler_flags = @ \o ASAN_FLAGS]
              ELSE IF bt = BUILD_TYPE_TSAN
              THEN [b5 EXCEPT !.compiler_flags = @ \o TSAN_FLAGS]
              ELSE b5
    IN IF ~is_linux /\ ~is_macos
       THEN [b |-> b3, raised |-> TRUE]      \* fatal("Unsupported platform")
       ELSE [b |-> b6, raised |-> FALSE]

\* Builder.init_compiler_independent_flags: the lists start empty; raised tells
\* that it ended in fatal().
init_compiler_independent_flags(b, bt, order) ==
    LET b2 == AddInstalledDirsOfAll(
                  add_linuxbrew_flags(FlagState(NoFlags,
                                                b.additional_allowed_shared_lib_paths)),
                  include_dir_components(bt, order))
        b3 == [b2 EXCEPT !.compiler_flags =
                   @ \o b2.preprocessor_flags
                     \o <<"-fno-omit-frame-pointer", "-fPIC", "-O2", "-Wall">>]
        b4 == IF is_linux THEN add_rpath(b3, PLACEHOLDER_RPATH)
              ELSE IF is_macos
              THEN [b3 EXCEPT !.cxx_flags = Append(@, "-stdlib=libc++"),
                              !.ld_flags = @ \o <<"-lc++", "-lc++abi",
                                                  "-Wl,-headerpad_max_install_names">>,
                              !.compiler_flags = Append(@, "-mmacosx-version-min=10.14")]
              ELSE b3
        b5 == [b4 EXCEPT !.cxx_flags = @ \o <<"-std=c++14", "-frtti">>]
        b6 == IF bt = BUILD_TYPE_ASAN
              THEN [b5 EXCEPT !.compiler_flags = @ \o ASAN_FLAGS]
              ELSE IF bt = BUILD_TYPE_TSAN
              THEN [b5 EXCEPT !.compiler_flags = @ \o TSAN_FLAGS]
              ELSE b5
    IN IF ~is_linux /\ ~is_macos
       THEN [b |-> b3, raised |-> TRUE]      \* fatal("Unsupported platform")
       ELSE [b |-> b6, raised |-> FALSE]

\* Builder.get_libcxx_dirs: (the include directory, the library directory).
get_libcxx_dirs(libcxx_installed_suffix) ==
    LET libcxx_installed_path == InstalledDir(libcxx_installed_suffix, "libcxx") IN
    <<libcxx_installed_path \o "/include/c++/v1", libcxx_installed_path \o "/lib">>

\* Builder.init_linux_clang7_flags
init_linux_clang7_flags(b, bt) ==
    LET stdlib == get_libcxx_dirs(bt)
        b1 == IF bt = BUILD_TYPE_TSAN
              THEN [b EXCEPT !.executable_only_ld_flags = @ \o <<"-fsanitize=thread">>]
              ELSE b
        b2 == [b1 EXCEPT !.cxx_flags =
                   <<"-Wno-error=unused-command-line-argument", "-stdlib=libc++",
                     "-isystem", stdlib[1], "-nostdinc++">> \o @]
        b3 == prepend_lib_dir_and_rpath(b2, stdlib[2])
        b4 == IF using_linuxbrew
              THEN [b3 EXCEPT !.compiler_flags = Append(@, "--gcc-toolchain=linuxbrew")]
              ELSE b3
    IN IF toolchain_type = "llvm7"
       THEN [b4 EXCEPT !.ld_flags = Append(@, "-lgcc_s")]
       ELSE b4

\* A test that takes libc++ for libc++abi as well.
is_libcxxabi_or_libcxx(dep) == dep \in {"llvm1x_libcxxabi", "llvm1x_libcxx"}

\* dep.name.endswith('_libcxxabi') and dep.name.endswith('_libcxx'), over the
\* names of the catalog.
is_libcxxabi(dep) == dep = "llvm1x_libcxxabi"

\* A test that takes no dependency for libc++.
is_libcxx_never(dep) == FALSE

\* dep.name.endswith('_libcxx')
is_libcxx(dep) == dep = "llvm1x_libcxx"

\* A probe for the UBSAN library under every configuration but COMMON.
probes_ubsan_lib_when_not_common(bt) == bt # BUILD_TYPE_COMMON

\* init_linux_clang1x_flags: os.path.exists(ubsan_lib_so_path) is under
\* `if self.build_type == BUILD_TYPE_ASAN`.
probes_ubsan_lib(bt) == bt = BUILD_TYPE_ASAN

\* init_linux_clang1x_flags asserts that the libc++ include directory, which an
\* earlier build installs, exists: when it derives the flags of libc++.
probes_file_system(dep, bt) ==
    /\ bt # BUILD_TYPE_COMMON
    /\ is_libcxx(dep)

\* Builder.init_linux_clang1x_flags: found tells whether the files it looks for
\* are there; raised tells that it ended in IOError / assert_dir_exists.
init_linux_clang1x_flags(b, dep, bt, found) ==
    LET libcxx == get_libcxx_dirs(bt)
        b1 == [b EXCEPT !.ld_flags = Append(@, "-rtlib=compiler-rt")]
        a1 == [b1 EXCEPT !.compiler_flags =
                   @ \o <<"-shared-libasan">>
                     \o (IF is_libcxxabi(dep) THEN <<"-fno-sanitize=vptr">> ELSE <<>>)]
        a2 == add_lib_dir_and_rpath(a1, compiler_rt_lib_dir)
        a3 == [a2 EXCEPT !.ld_flags = Append(@, "-l" \o ubsan_lib_name)]
        b2 == IF bt = BUILD_TYPE_ASAN THEN a3 ELSE b1
        b3 == [b2 EXCEPT !.ld_flags = Append(@, "-lunwind")]
        b4 == IF ~is_libcxx(dep) /\ ~is_libcxxabi(dep)
              THEN prepend_lib_dir_and_rpath(
                       [b3 EXCEPT !.ld_flags = @ \o <<"-lc++", "-lc++abi">>,
                                  !.cxx_flags = <<"-stdlib=libc++", "-isystem", libcxx[1],
                                                  "-nostdinc++">> \o @],
                       libcxx[2])
              ELSE b3
        b5 == IF is_libcxx(dep)
              THEN [b4 EXCEPT !.cxx_flags = Append(@, "-I" \o libcxx[1]),
                              !.ld_flags = Append(@, "-L" \o libcxx[2])]
              ELSE b4
        b6 == IF is_libcxx(dep) \/ is_libcxxabi(dep) THEN add_rpath(b5, libcxx[2]) ELSE b5
        b7 == [b6 EXCEPT !.cxx_flags = Append(@, "-Wno-error=unused-command-line-argument")]
    IN IF bt = BUILD_TYPE_COMMON THEN [b |-> b1, raised |-> FALSE]
       ELSE IF probes_ubsan_lib(bt) /\ ~ubsan_lib_exists THEN [b |-> a2, raised |-> TRUE]
       ELSE IF is_libcxx(dep) /\ ~found THEN [b |-> b4, raised |-> TRUE]
       ELSE [b |-> b7, raised |-> FALSE]

\* The branch of init_flags for Clang 10 and newer.
is_clang1x ==
    /\ single_compiler_type = "clang"
    /\ llvm_major_version # <<>>
    /\ llvm_major_version[1] >= 10

\* Builder.init_flags
init_flags(b, dep, bt, order, found) ==
    LET r == init_compiler_independent_flags(b, bt, order) IN
    IF r.raised THEN r
    ELSE IF ~is_macos /\ building_with_clang(bt)
    THEN IF is_clang1x THEN init_linux_clang1x_flags(r.b, dep, bt, found)
         ELSE IF llvm_major_version = <<7>> \/ single_compiler_type = None
         THEN [b |-> init_linux_clang7_flags(r.b, bt), raised |-> FALSE]
         ELSE [b |-> r.b, raised |-> TRUE]    \* ValueError
    ELSE r

\* A get_effective_cxx_flags that lists the dependency's flags first.
get_effective_cxx_flags_dep_first(fl, dep) ==
    dep_additional_flags[dep].cxx \o fl.cxx_flags \o fl.compiler_flags
        \o dep_additional_flags[dep].compiler

\* Builder.get_effective_compiler_flags
get_effective_compiler_flags(fl, dep) ==
    fl.compiler_flags \o dep_additional_flags[dep].compiler

\* Builder.get_effective_cxx_flags
get_effective_cxx_flags(fl, dep) ==
    fl.cxx_flags \o get_effective_compiler_flags(fl, dep) \o dep_additional_flags[dep].cxx

\* Builder.get_effective_c_flags
get_effective_c_flags(fl, dep) ==
    fl.c_flags \o get_effective_compiler_flags(fl, dep) \o dep_additional_flags[dep].c

\* Builder.get_effective_ld_flags
get_effective_ld_flags(fl, dep) == fl.ld_flags \o dep_additional_flags[dep].ld

\* Executable linker flags that leave out the executable-only list.
get_effective_executable_ld_flags_as_shared(fl, dep) ==
    fl.ld_flags \o dep_additional_flags[dep].ld

\* Builder.get_effective_executable_ld_flags
get_effective_executable_ld_flags(fl, dep) ==
    fl.ld_flags \o fl.executable_only_ld_flags \o dep_additional_flags[dep].ld

\* Builder.get_effective_preprocessor_flags
get_effective_preprocessor_flags(fl, dep) == fl.preprocessor_flags

\* ----------------------------------------------------- the license manifest

\* No file fossa_modules.yml.
NoManifest == [written |-> 0, content |-> <<>>]

\* A pre-build step that records every dependency, archive or not.
record_fossa_module_always(modules, dep) ==
    Append(modules, [name |-> dep, target |-> dep_archive_name[dep]])

\* perform_pre_build_steps: self.fossa_modules after the download of dep.
record_fossa_module(modules, dep) ==
    IF dep_archive_name[dep] # <<>>
    THEN Append(modules, [name |-> dep, target |-> dep_archive_name[dep]])
    ELSE modules

\* ------------------------------------------------ environment variables

RECURSIVE Join(_)
\* ' '.join(items)
Join(items) ==
    IF items = <<>> THEN ""
    ELSE IF Len(items) = 1 THEN items[1]
    ELSE items[1] \o " " \o Join(Tail(items))

\* The variables of os.environ that a build step sets.
EnvVarNames ==
    {"CPPFLAGS", "CXXFLAGS", "CFLAGS", "LDFLAGS", "LIBS", "ASAN_OPTIONS",
     "YB_REMOTE_COMPILATION"}

\* The environment the process is started in: CFLAGS and YB_REMOTE_COMPILATION
\* set by the caller, the others not set.
InheritedEnviron ==
    [n \in EnvVarNames |->
        IF n = "CFLAGS" THEN "-O0" ELSE IF n = "YB_REMOTE_COMPILATION" THEN "1" ELSE None]

NoEnvVars == [n \in {} |-> None]

\* The arguments of a build_with_cmake or build_with_configure call that no recipe has
\* made: every parameter at the default of its signature. config_logs are the
\* config.log files of the build tree and compiler_type is
\* builder.compiler_choice.compiler_type, as the recipe finds them.
NoCallArgs ==
    [extra_args |-> <<>>, additional_cmake_args |-> <<>>, use_ninja_if_available |-> FALSE,
     should_install |-> TRUE, shared_and_static |-> FALSE,
     install |-> <<"install">>, run_autogen |-> FALSE, autoconf |-> FALSE,
     src_subdir_name |-> <<>>, config_logs |-> <<>>, compiler_type |-> "gcc"]

\* No build_with_cmake or build_with_configure call is under way. status is "none",
\* "called", "running", "returned" or "raised"; todo holds the steps still to make,
\* commands the external commands run so far with the directory each ran in, checked
\* the compile_commands.json files read so far, cwd the working directory, saved the
\* directories the entered PushDir contexts go back to, logged the config.log files
\* written to the log, error the exception raised, project_config the lines of
\* project-config.jam and original_lines those the Boost recipe has read from it.
NoBuildCall ==
    [status |-> "none", kind |-> None, call |-> NoCallArgs, todo |-> <<>>,
     commands |-> <<>>, checked |-> <<>>, cwd |-> "build_dir", saved |-> <<>>,
     logged |-> <<>>, error |-> None, original_lines |-> <<>>, project_config |-> <<>>]

\* build_dependency: the env_vars it passes to EnvVarContext.
BuildEnvVars(fl, dep, bt) ==
    [n \in {"CPPFLAGS", "CXXFLAGS", "CFLAGS", "LDFLAGS", "LIBS"}
            \cup (IF bt = BUILD_TYPE_ASAN THEN {"ASAN_OPTIONS"} ELSE {}) |->
        CASE n = "CPPFLAGS" -> Join(get_effective_preprocessor_flags(fl, dep))
          [] n = "CXXFLAGS" -> Join(get_effective_cxx_flags(fl, dep))
          [] n = "CFLAGS" -> Join(get_effective_c_flags(fl, dep))
          [] n = "LDFLAGS" -> Join(get_effective_ld_flags(fl, dep))
          [] n = "LIBS" -> Join(fl.libs)
          [] OTHER -> "detect_odr_violation=0:detect_leaks=0"]

\* EnvVarContext.__enter__: the variables given are set, what they held is kept.
EnvVarContextEnter(env, given) ==
    [environ |-> [n \in EnvVarNames |-> IF n \in DOMAIN given THEN given[n] ELSE env[n]],
     saved |-> [n \in DOMAIN given |-> env[n]]]

\* EnvVarContext.__exit__: the variables the context had set get back what they held.
EnvVarContextExit(env, saved) ==
    [n \in EnvVarNames |-> IF n \in DOMAIN saved THEN saved[n] ELSE env[n]]

\* Whether the recipe of dep builds with build_with_configure or build_with_cmake
\* (boost drives its own build tool).
builds_with_configure_or_cmake(dep) == dep # "boost"

\* dep.build: os.environ when it returns or raises. build_with_configure and
\* build_with_cmake start by setting YB_REMOTE_COMPILATION.
BuildEnviron(dep, env) ==
    IF builds_with_configure_or_cmake(dep)
    THEN [env EXCEPT !["YB_REMOTE_COMPILATION"] = "0"]
    ELSE env

\* build_dependency, up to "if only_process_flags": init_flags and the rpaths of
\* the installed lib directories.
build_dependency_flags(b, dep, bt, order, found) ==
    LET r == init_flags(b, dep, bt, order, found)
        b1 == add_rpath(r.b, InstalledDir(bt, "lib"))
        b2 == IF bt # BUILD_TYPE_COMMON
              THEN add_rpath(b1, InstalledDir(BUILD_TYPE_COMMON, "lib"))
              ELSE b1
    IN IF r.raised THEN r ELSE [b |-> b2, raised |-> FALSE]

\* Flag steps that are taken only when the dependency is going to be built.
build_dependency_flag_steps_when_building(b, dep, bt, order, found, only_process_flags) ==
    IF only_process_flags THEN [b |-> b, raised |-> FALSE]
    ELSE build_dependency_flags(b, dep, bt, order, found)

\* build_dependency(dep, only_process_flags): its flag steps come before
\* "if only_process_flags: return", and are taken either way.
build_dependency_flag_steps(b, dep, bt, order, found, only_process_flags) ==
    build_dependency_flags(b, dep, bt, order, found)

\* ---------------------------------------------------------- the git state

\* git log --pretty=%H -n 1 <files>: the latest commit that touched one of the
\* files. Commits are numbered in the order they were made.
GitLogLastCommit(g, files) ==
    CHOOSE n \in {g.last_commit[f] : f \in files} :
        \A f \in files : g.last_commit[f] <= n

\* git diff <files>: the differences between the index and the working tree.
GitDiff(g, files) ==
    [f \in files |-> IF g.index[f] = g.work[f] THEN <<>> ELSE <<g.index[f], g.work[f]>>]

\* git diff --cached <files>: the differences between HEAD and the index.
GitDiffCached(g, files) ==
    [f \in files |-> IF g.head[f] = g.index[f] THEN <<>> ELSE <<g.head[f], g.index[f]>>]

\* hashlib.sha256(...).hexdigest(): a digest names its input.
sha256(data) == <<"sha256", data>>

\* Builder.get_build_stamp_for_dependency, evaluated on the repository state g.
BuildStampOf(g, dep) ==
    LET files == input_files_for_stamp(dep) IN
    [git_commit_sha1 |-> GitLogLastCommit(g, files),
     git_diff_sha256 |-> sha256(GitDiff(g, files)),
     git_diff_sha256_cached |-> sha256(GitDiffCached(g, files))]

get_build_stamp_for_dependency(dep) == BuildStampOf(git, dep)

\* A check of the input files that leaves out the recipe module.
stamp_inputs_exist_but_recipe(g, dep) == {<<MAIN_PY>>, <<BUILD_SH>>} \cap g.missing = {}

\* get_build_stamp_for_dependency: os.path.exists holds of each of its input
\* files; where it does not, the function ends in fatal().
stamp_inputs_exist(g, dep) == input_files_for_stamp(dep) \cap g.missing = {}

\* dep.dir_name: the name of the dependency's source directory, if it declares one.
dir_name(dep) == dep_dir_name[dep]

\* ShouldRebuild never finding a pair up to date.
ShouldRebuildAlways(st, g, dirs, dep, bt) == TRUE

\* ShouldRebuild looking for the source directory of every dependency.
ShouldRebuildAlwaysCheckingSourceDir(st, g, dirs, dep, bt) ==
    LET old_build_stamp == st[<<dep, bt>>]
        new_build_stamp == <<BuildStampOf(g, dep)>>
    IN IF dep \notin dirs THEN TRUE
       ELSE IF old_build_stamp = new_build_stamp THEN FALSE ELSE TRUE

\* ShouldRebuild taking a missing stamp file for an unchanged one.
ShouldRebuildOnlyOnDifferentStamp(st, g, dirs, dep, bt) ==
    LET old_build_stamp == st[<<dep, bt>>]
        new_build_stamp == <<BuildStampOf(g, dep)>>
    IN IF dir_name(dep) # <<>> /\ dep \notin dirs THEN TRUE
       ELSE IF old_build_stamp = <<>> \/ old_build_stamp = new_build_stamp THEN FALSE
       ELSE TRUE

\* Builder.should_rebuild_dependency, evaluated on the stamp files st, the
\* repository g and the existing source directories dirs. A stamp file holds
\* <<stamp>>, a missing one <<>>.
ShouldRebuild(st, g, dirs, dep, bt) ==
    LET old_build_stamp == st[<<dep, bt>>]
        new_build_stamp == <<BuildStampOf(g, dep)>>
    IN IF dir_name(dep) # <<>> /\ dep \notin dirs THEN TRUE
       ELSE IF old_build_stamp = new_build_stamp THEN FALSE
       ELSE TRUE

should_rebuild_dependency(dep, bt) == ShouldRebuild(stamps, git, src_dirs, dep, bt)

\* ------------------------------------------------------------- selection

SelectSeq2(s, Test(_)) ==
    LET F[i \in 0..Len(s)] ==
            IF i = 0 THEN <<>>
            ELSE IF Test(s[i]) THEN Append(F[i - 1], s[i]) ELSE F[i - 1]
    IN F[Len(s)]

\* A selection that checks the names of the include list only.
SelectionFailsOnIncludeListOnly(a) ==
    a.dependencies # <<>> /\ \E d \in Range(a.dependencies) : d \notin DepNames

\* Builder.select_dependencies_to_build: whether it ends in fatal / ValueError.
SelectionFails(a) ==
    IF a.dependencies # <<>> THEN \E d \in Range(a.dependencies) : d \notin DepNames
    ELSE IF a.skip # <<>> THEN Range(a.skip) \ DepNames # {}
    ELSE FALSE

\* A selection that takes the include list as it was given.
select_dependencies_as_requested(a) ==
    IF a.dependencies # <<>> THEN a.dependencies
    ELSE IF a.skip # <<>>
    THEN LET Kept(d) == d \notin Range(a.skip) IN SelectSeq2(dependencies, Kept)
    ELSE dependencies

\* Builder.select_dependencies_to_build: self.selected_dependencies.
select_dependencies_to_build(a) ==
    IF a.dependencies # <<>>
    THEN LET Requested(d) == d \in Range(a.dependencies) IN SelectSeq2(dependencies, Requested)
    ELSE IF a.skip # <<>>
    THEN LET Kept(d) == d \notin Range(a.skip) IN SelectSeq2(dependencies, Kept)
    ELSE dependencies

\* --------------------------------------------------------------- inputs

\* What each dependency answers when asked for the name of its archive: libc++abi
\* stands for the dependencies that have none.
ArchiveNames ==
    [d \in DepNames |-> IF d = "llvm1x_libcxxabi" THEN <<>> ELSE <<d \o ".tar.gz">>]

\* What a dependency answers when asked for its additional flags: nothing, or
\* one flag of each category.
NoAdditionalFlags == [compiler |-> <<>>, c |-> <<>>, cxx |-> <<>>, ld |-> <<>>]
AdditionalFlagChoices ==
    {NoAdditionalFlags,
     [compiler |-> <<"-DEXTRA">>, c |-> <<"-std=c11">>, cxx |-> <<"-std=c++17">>,
      ld |-> <<"-lextra">>]}

Platforms == {"Linux", "Darwin", "FreeBSD"}

\* (--single-compiler-type, the major version of the LLVM found): <<>> is None.
Compilers ==
    {<<None, <<>>>>, <<"gcc", <<>>>>, <<"clang", <<7>>>>, <<"clang", <<9>>>>,
     <<"clang", <<10>>>>}

ArgBuildTypes == {None} \cup Range(BUILD_TYPES)

\* (the positional dependency names, the names of --skip).
Selections ==
    {<<<<>>, <<>>>>, <<<<"boost", "zlib">>, <<>>>>, <<<<>>, <<"llvm1x_libcxx">>>>,
     <<<<"boost">>, <<"zlib">>>>,
     <<<<"zlib", "nosuch">>, <<>>>>, <<<<>>, <<"boost", "nosuch">>>>}

\* Whether the compiler's runtime directory has the UBSAN library: either way for
\* the compilers whose flags ask for it.
UbsanLibChoices == IF is_linux /\ is_clang1x THEN BOOLEAN ELSE {TRUE}

\* The command lines and machines of the behaviours checked.
Inputs(platforms, compilers, arg_build_types, skip_sanitizers, download_extract_only,
       selections, should_build) ==
    /\ platform \in platforms
    /\ \E c \in compilers :
          /\ single_compiler_type = c[1]
          /\ llvm_major_version = c[2]
    /\ \E bt \in arg_build_types, ss \in skip_sanitizers, de \in download_extract_only,
          sel \in selections :
          args = [build_type |-> bt, skip_sanitizers |-> ss,
                  download_extract_only |-> de,
                  dependencies |-> sel[1], skip |-> sel[2]]
    /\ dep_should_build \in should_build
    /\ dep_dir_name = [d \in DepNames |-> <<d>>]
    /\ dep_additional_flags = [d \in DepNames |-> NoAdditionalFlags]
    /\ dep_archive_name = ArchiveNames

\* A clean checkout of the repository: nothing staged, nothing modified.
CleanGit ==
    [commits |-> 0,
     last_commit |-> [f \in Files |-> 0],
     head |-> [f \in Files |-> 0],
     index |-> [f \in Files |-> 0],
     work |-> [f \in Files |-> 0],
     missing |-> {}]

AllPairs == DepNames \X Range(BUILD_TYPES)

\* The output directories: installed/<build type> and its libcxx subdirectory.
OutDirs == {InstalledDir(bt, sub) : bt \in Range(BUILD_TYPES), sub \in {"", "libcxx"}}

\* Nothing under installed/.
NoInstalledTree ==
    [d \in OutDirs |-> [lib |-> FALSE, include |-> FALSE, lib64 |-> "absent"]]

\* Builder.__init__, as far as the flags go. How the set of COMMON and a build
\* type iterates is fixed for the process, and shows when first iterated.
InitFlagState ==
    /\ flags = NoFlags
    /\ additional_allowed_shared_lib_paths = {}
    /\ set_order = [bt \in Range(BUILD_TYPES) |-> "unset"]

\* A process that has just been started.
InitProcess ==
    /\ InitFlagState
    /\ built_on = [p \in AllPairs |-> <<>>]
    /\ fossa_modules = <<>>
    /\ environ = InheritedEnviron
    /\ saved_env_vars = NoEnvVars
    /\ build_call = NoBuildCall
    /\ pc = "start"
    /\ run_no = 1
    /\ selected_dependencies = <<>>
    /\ build_type = None
    /\ build_types = <<>>
    /\ dep_idx = 0
    /\ log = <<>>
    /\ events = <<>>
    /\ executed = <<>>
    /\ run_git = CleanGit
    /\ prev_run = [ended |-> None, env_changed |-> FALSE, git |-> CleanGit,
                   built |-> {}, current |-> {}, flags |-> NoFlags]
    /\ env_changed = FALSE

\* The stamp files an earlier run left for the pairs in built, the repository
\* unchanged since.
StampsLeftFor(built) ==
    [p \in AllPairs |-> IF p \in built THEN <<BuildStampOf(CleanGit, p[1])>> ELSE <<>>]

\* Nothing built yet; everything built by an earlier run; only boost built.
StampsBefore ==
    {StampsLeftFor({}), StampsLeftFor(AllPairs),
     StampsLeftFor({p \in AllPairs : p[1] = "boost"})}

\* One run, for every command line and machine, on a tree where an earlier run
\* may have left stamps.
Init ==
    /\ Inputs(Platforms, Compilers, ArgBuildTypes, BOOLEAN, BOOLEAN, Selections,
              {[d \in DepNames |-> TRUE], [d \in DepNames |-> d # "llvm1x_libcxxabi"]})
    /\ ubsan_lib_exists \in UbsanLibChoices
    /\ InitProcess
    /\ git = CleanGit
    /\ stamps \in StampsBefore
    /\ src_dirs = {p[1] : p \in {q \in AllPairs : stamps[q] # <<>>}}
    /\ out_dirs = {}
    /\ installed = NoInstalledTree
    /\ manifest = NoManifest
    /\ catalog = <<>>
    /\ env_ops = 0
    /\ failures = 0

\* A clean checkout, and one with a modification of the driver script in the
\* working tree and a staged modification of the boost recipe.
GitBefore ==
    {CleanGit,
     [CleanGit EXCEPT !.work[<<BUILD_SH>>] = 1,
                      !.work[RecipeFile("boost")] = 1, !.index[RecipeFile("boost")] = 1]}

\* Repeated runs on a fresh build tree, the developer changing files in between.
InitRerun ==
    /\ Inputs({"Linux"}, {<<"clang", <<10>>>>},
              {BUILD_TYPE_UNINSTRUMENTED, BUILD_TYPE_ASAN},
              {FALSE}, BOOLEAN, {<<<<>>, <<>>>>, <<<<"boost", "zlib">>, <<>>>>},
              {[d \in DepNames |-> TRUE]})
    /\ ubsan_lib_exists = TRUE
    /\ InitProcess
    /\ git \in GitBefore
    /\ stamps = StampsLeftFor({})
    /\ src_dirs = {}
    /\ out_dirs = {}
    /\ installed = NoInstalledTree
    /\ manifest = NoManifest
    /\ catalog = <<>>
    /\ env_ops = 0
    /\ failures = 0

\* ------------------------------------------------------------ the Builder

Event(ev, dep, bt, val) == [ev |-> ev, dep |-> dep, bt |-> bt, val |-> val]
LogLine(text, names) == [text |-> text, build_types |-> names]

\* A validation that accepts a dependency list together with a skip list.
ParseArgsFailsOnCompilerOnly ==
    is_macos /\ single_compiler_type \notin {None, "clang"}

\* parse_cmd_line_args: the validation of the arguments this model carries.
ParseArgsFails ==
    \/ args.dependencies # <<>> /\ args.skip # <<>>
    \/ is_macos /\ single_compiler_type \notin {None, "clang"}

\* Builder.parse_args: parse_cmd_line_args, then the CompilerChoice is made.
ParseArgs ==
    /\ pc = "start"
    /\ IF ParseArgsFails
       THEN pc' = "rejected" /\ UNCHANGED single_compiler_type
       ELSE /\ pc' = "parsed"
            /\ single_compiler_type' = IF is_macos THEN "clang" ELSE single_compiler_type
    /\ run_git' = git
    /\ UNCHANGED <<platform, args, llvm_major_version, dep_should_build, dep_dir_name,
                   dep_additional_flags, dep_archive_name, ubsan_lib_exists, run_no,
                   selected_dependencies, build_type, build_types, dep_idx,
                   fs_vars, log, events, executed, prev_run,
                   built_on, flag_vars, fossa_modules, manifest, catalog, env_vars, env_changed>>

\* Builder.finish_initialization: populate_dependencies, select_dependencies_to_build.
FinishInitialization ==
    /\ pc = "parsed"
    /\ IF SelectionFails(args)
       THEN pc' = "rejected" /\ UNCHANGED selected_dependencies
       ELSE /\ pc' = "initialized"
            /\ selected_dependencies' = select_dependencies_to_build(args)
    /\ catalog' = populate_dependencies
    /\ UNCHANGED <<input_vars, run_no, build_type, build_types, dep_idx,
                   fs_vars, log, events, executed, run_git, prev_run,
                   built_on, flag_vars, fossa_modules, manifest, env_vars, env_changed>>

\* Builder.get_build_types
get_build_types == BUILD_TYPES

\* Builder.prepare_out_dirs: the installed/<build type> directories it sets up.
prepare_out_dirs == Range(get_build_types)

\* The directories prepare_out_dirs goes through: dirs + libcxx_dirs, in order.
OutDirsInOrder ==
    [i \in 1..(2 * Len(get_build_types)) |->
        IF i <= Len(get_build_types)
        THEN InstalledDir(get_build_types[i], "")
        ELSE InstalledDir(get_build_types[i - Len(get_build_types)], "libcxx")]

\* What may be at the path lib64 of an output directory: nothing, a directory,
\* a file, a symbolic link to lib, one to another directory that exists, one to
\* a path that does not exist.
Lib64Kinds == {"absent", "dir", "file", "link_to_lib", "link_to_other", "dangling_link"}

\* os.path.exists follows symbolic links; lib has just been made.
path_exists(kind) == kind \notin {"absent", "dangling_link"}

\* os.path.islink
islink(kind) == kind \in {"link_to_lib", "link_to_other", "dangling_link"}

\* Builder.prepare_out_dirs, the body of its loop for one directory: raised
\* tells that os.symlink found something at lib64 (FileExistsError).
prepare_out_dir(t) ==
    LET made == [t EXCEPT !.lib = TRUE, !.include = TRUE] IN
    IF path_exists(t.lib64)
    THEN IF islink(t.lib64) THEN [tree |-> made, raised |-> FALSE]
         ELSE [tree |-> [made EXCEPT !.lib64 = "link_to_lib"], raised |-> FALSE]
    ELSE IF t.lib64 = "absent"
    THEN [tree |-> [made EXCEPT !.lib64 = "link_to_lib"], raised |-> FALSE]
    ELSE [tree |-> made, raised |-> TRUE]

RECURSIVE prepare_out_dirs_from(_, _)
\* Builder.prepare_out_dirs: its loop, from the i-th directory on.
prepare_out_dirs_from(tree, i) ==
    IF i > Len(OutDirsInOrder) THEN [tree |-> tree, raised |-> FALSE]
    ELSE LET d == OutDirsInOrder[i]
             r == prepare_out_dir(tree[d])
             after == [tree EXCEPT ![d] = r.tree]
         IN IF r.raised THEN [tree |-> after, raised |-> TRUE]
            ELSE prepare_out_dirs_from(after, i + 1)

\* Builder.prepare_out_dirs: what is under installed/ after it.
prepare_installed_tree(tree) == prepare_out_dirs_from(tree, 1)

\* EnterBuildType without the early return for a build type not requested.
EnterBuildTypeNeverSkipping(bt) ==
    /\ build_type' = bt
    /\ executed' = Append(executed, bt)
    /\ log' = Append(log, LogLine("Building dependencies", {bt}))
    /\ dep_idx' = 1
    /\ pc' = "deps"

\* EnterBuildType whose early return does not exempt COMMON.
EnterBuildTypeSkippingCommon(bt) ==
    IF args.build_type # None /\ bt # args.build_type
    THEN /\ log' = Append(log, LogLine("Skipping build type", {bt, args.build_type}))
         /\ pc' = "run_loop"
         /\ UNCHANGED <<build_type, executed, dep_idx>>
    ELSE EnterBuildTypeNeverSkipping(bt)

\* Builder.build_one_build_type, up to its loop: bt is skipped, or becomes the
\* build type of the Builder (set_build_type).
EnterBuildType(bt) ==
    IF /\ bt # BUILD_TYPE_COMMON
       /\ args.build_type # None
       /\ bt # args.build_type
    THEN /\ log' = Append(log, LogLine("Skipping build type", {bt, args.build_type}))
         /\ pc' = "run_loop"
         /\ UNCHANGED <<build_type, executed, dep_idx>>
    ELSE /\ build_type' = bt
         /\ executed' = Append(executed, bt)
         /\ log' = Append(log, LogLine("Building dependencies", {bt}))
         /\ dep_idx' = 1
         /\ pc' = "deps"

\* Builder.run, up to and into build_one_build_type(BUILD_TYPE_COMMON).
Run ==
    /\ pc = "initialized"
    /\ out_dirs' = out_dirs \cup prepare_out_dirs
    /\ installed' = prepare_installed_tree(installed).tree
    /\ EnterBuildType(BUILD_TYPE_COMMON)
    /\ UNCHANGED <<input_vars, run_no, selected_dependencies, build_types,
                   git, stamps, src_dirs, env_ops, failures, events, run_git, prev_run,
                   built_on, flag_vars, fossa_modules, manifest, catalog, env_vars,
                   env_changed>>

\* RunBuildTypes appending TSAN before ASAN.
RunBuildTypesTsanFirst ==
    <<BUILD_TYPE_UNINSTRUMENTED>> \o
    (IF is_linux /\ use_only_clang /\ ~args.skip_sanitizers
     THEN <<BUILD_TYPE_TSAN, BUILD_TYPE_ASAN>> ELSE <<>>)

\* RunBuildTypes without the is_linux() test.
RunBuildTypesAnyPlatform ==
    <<BUILD_TYPE_UNINSTRUMENTED>> \o
    (IF use_only_clang /\ ~args.skip_sanitizers
     THEN <<BUILD_TYPE_ASAN, BUILD_TYPE_TSAN>> ELSE <<>>)

\* RunBuildTypes without the test of --skip-sanitizers.
RunBuildTypesIgnoringSkipSanitizers ==
    <<BUILD_TYPE_UNINSTRUMENTED>> \o
    (IF is_linux /\ use_only_clang
     THEN <<BUILD_TYPE_ASAN, BUILD_TYPE_TSAN>> ELSE <<>>)

\* Builder.run: the build types that follow COMMON.
RunBuildTypes ==
    <<BUILD_TYPE_UNINSTRUMENTED>> \o
    (IF is_linux /\ use_only_clang /\ ~args.skip_sanitizers
     THEN <<BUILD_TYPE_ASAN, BUILD_TYPE_TSAN>> ELSE <<>>)

\* The loop of build_one_build_type is over: back in run.
EndBuildType ==
    /\ pc = "deps"
    /\ dep_idx > Len(selected_dependencies)
    /\ pc' = "run_loop"
    /\ IF build_type = BUILD_TYPE_COMMON
       THEN /\ build_types' = RunBuildTypes
            /\ log' = Append(log, LogLine("Full list of build types", Range(RunBuildTypes)))
       ELSE UNCHANGED <<build_types, log>>
    /\ UNCHANGED <<input_vars, run_no, selected_dependencies, build_type, dep_idx,
                   fs_vars, events, executed, run_git, prev_run,
                   built_on, flag_vars, fossa_modules, manifest, catalog, env_vars, env_changed>>

\* Builder.run: the next iteration of "for build_type in build_types".
RunLoop ==
    /\ pc = "run_loop"
    /\ build_types # <<>>
    /\ build_types' = Tail(build_types)
    /\ EnterBuildType(Head(build_types))
    /\ UNCHANGED <<input_vars, run_no, selected_dependencies,
                   fs_vars, events, run_git, prev_run,
                   built_on, flag_vars, fossa_modules, manifest, catalog, env_vars, env_changed>>

\* A dump that appends to the file it finds.
dump_fossa_modules_appending ==
    [written |-> manifest.written + 1, content |-> manifest.content \o fossa_modules]

\* Builder.run: open(fossa_modules.yml, 'w') and yaml.dump(self.fossa_modules): the
\* file after it (written counts how many times it was written).
dump_fossa_modules ==
    [written |-> manifest.written + 1, content |-> fossa_modules]

\* Builder.run: the loop is over, fossa_modules.yml is written.
RunFinish ==
    /\ pc = "run_loop"
    /\ build_types = <<>>
    /\ pc' = "done"
    /\ manifest' = dump_fossa_modules
    /\ UNCHANGED catalog
    /\ UNCHANGED <<input_vars, run_no, selected_dependencies, build_type, build_types,
                   dep_idx, fs_vars, log, events, executed, run_git, prev_run,
                   built_on, flag_vars, fossa_modules, env_vars, env_changed>>

\* BuildGroupOf with its comparison inverted.
BuildGroupOfInverted(bt) ==
    IF bt # BUILD_TYPE_COMMON THEN BUILD_GROUP_COMMON ELSE BUILD_GROUP_INSTRUMENTED

\* build_one_build_type: the build group of a build type.
BuildGroupOf(bt) ==
    IF bt = BUILD_TYPE_COMMON THEN BUILD_GROUP_COMMON ELSE BUILD_GROUP_INSTRUMENTED

\* What a download or a build may come to: it succeeds, or (a bounded number of
\* times) it fails.
Outcomes == IF failures < MaxFailures THEN BOOLEAN ELSE {TRUE}

\* What dep.build comes to: an exception that build_with_cmake or build_with_configure
\* raised goes through dep.build to build_dependency.
BuildOutcomes == IF build_call.status = "raised" THEN {FALSE} ELSE Outcomes

\* How set([COMMON, bt]) iterates in this process: as it did before, or, when
\* first iterated, either way.
OrdersOf(bt) ==
    IF bt = BUILD_TYPE_COMMON \/ set_order[bt] # "unset" THEN {set_order[bt]}
    ELSE SetOrders

\* What the files init_flags looks for may come to.
ProbeOutcomes(dep, bt) ==
    IF ~is_macos /\ building_with_clang(bt) /\ is_clang1x /\ probes_file_system(dep, bt)
    THEN Outcomes
    ELSE {TRUE}

\* next_dep_idx leaving the loop after a dependency whose build was skipped.
next_dep_idx_return_on_skip(i, was_built) ==
    IF was_built THEN i + 1 ELSE Len(selected_dependencies) + 1

\* build_one_build_type: "for dep in self.selected_dependencies" moves on to the
\* next dependency, whether dep was built or its build was skipped.
next_dep_idx(i, was_built) == i + 1

\* build_one_build_type: a dependency of the other build group is passed over.
SkipDependency ==
    /\ pc = "deps"
    /\ dep_idx <= Len(selected_dependencies)
    /\ BuildGroupOf(build_type) # build_group(selected_dependencies[dep_idx])
    /\ dep_idx' = dep_idx + 1
    /\ UNCHANGED <<input_vars, pc, run_no, selected_dependencies, build_type, build_types,
                   fs_vars, log, events, executed, run_git, prev_run,
                   built_on, flag_vars, fossa_modules, manifest, catalog, env_vars, env_changed>>

\* The steps of a pair with the flags derived before the stamp is consulted.
build_one_build_type_steps_flags_first(dep, bt, should_rebuild, derived) ==
    <<Event("pre_build", dep, bt, TRUE), Event("init_flags", dep, bt, derived),
      Event("should_rebuild", dep, bt, should_rebuild)>>

\* Builder.build_one_build_type, the body of its loop for a dependency of the
\* group: perform_pre_build_steps, then should_build and
\* should_rebuild_dependency, then build_dependency, which starts with init_flags.
build_one_build_type_steps(dep, bt, should_rebuild, derived) ==
    <<Event("pre_build", dep, bt, TRUE), Event("should_rebuild", dep, bt, should_rebuild),
      Event("init_flags", dep, bt, derived)>>

\* A build_dependency that builds whatever --download-extract-only says.
returns_before_build_never == FALSE

\* Builder.build_dependency: with --download-extract-only it returns once the
\* flags are processed, before the build directory is prepared.
returns_before_build == args.download_extract_only

\* build_one_build_type: one dependency of the build type's group, from
\* perform_pre_build_steps to the call of dep.build (or to the end of
\* build_dependency when the build is skipped).
ProcessDependency ==
    /\ pc = "deps"
    /\ dep_idx <= Len(selected_dependencies)
    /\ LET dep == selected_dependencies[dep_idx]
           bt == build_type
           E(ev, val) == Event(ev, dep, bt, val)
       IN
       /\ BuildGroupOf(bt) = build_group(dep)
       /\ \E downloaded \in Outcomes :
          IF ~downloaded
          THEN \* download_manager.download_dependency raised
               /\ pc' = "aborted"
               /\ failures' = failures + 1
               /\ events' = events \o <<E("pre_build", FALSE)>>
               /\ UNCHANGED <<dep_idx, src_dirs, flag_vars, fossa_modules>>
          ELSE IF ~stamp_inputs_exist(git, dep)
          THEN \* should_rebuild_dependency: get_build_stamp_for_dependency is fatal
               /\ pc' = "aborted"
               /\ events' = events \o <<E("pre_build", TRUE), E("get_build_stamp", FALSE)>>
               /\ src_dirs' = src_dirs \cup {dep}
               /\ fossa_modules' = record_fossa_module(fossa_modules, dep)
               /\ UNCHANGED <<dep_idx, failures, flag_vars>>
          ELSE \E order \in OrdersOf(bt), found \in ProbeOutcomes(dep, bt) :
            LET dirs == src_dirs \cup {dep}
                should_build == dep_should_build[dep]
                should_rebuild == ShouldRebuild(stamps, git, dirs, dep, bt)
                steps(derived) ==
                    events \o build_one_build_type_steps(dep, bt, should_rebuild, derived)
                r == build_dependency_flag_steps(
                         FlagState(flags, additional_allowed_shared_lib_paths),
                         dep, bt, order, found, ~(should_build /\ should_rebuild))
            IN
            /\ src_dirs' = dirs
            /\ fossa_modules' = record_fossa_module(fossa_modules, dep)
            /\ flags' = FlagLists(r.b)
            /\ additional_allowed_shared_lib_paths' = r.b.additional_allowed_shared_lib_paths
            /\ set_order' = [set_order EXCEPT ![bt] = order]
            /\ IF r.raised
               THEN /\ pc' = "aborted"
                    /\ events' = steps(FALSE)
                    /\ failures' = IF found THEN failures ELSE failures + 1
                    /\ UNCHANGED dep_idx
               ELSE IF ~(should_build /\ should_rebuild)
               THEN \* build_dependency(dep, only_process_flags=True)
                    /\ events' = steps(TRUE)
                    /\ dep_idx' = next_dep_idx(dep_idx, FALSE)
                    /\ UNCHANGED <<pc, failures>>
               ELSE IF returns_before_build
               THEN /\ events' = steps(TRUE)
                    /\ dep_idx' = dep_idx + 1
                    /\ UNCHANGED <<pc, failures>>
               ELSE \E prepared \in Outcomes :
                    IF ~prepared
                    THEN \* create_build_dir_and_prepare raised (fatal, rsync)
                         /\ pc' = "aborted"
                         /\ failures' = failures + 1
                         /\ events' = steps(TRUE) \o <<E("prepare_failed", FALSE)>>
                         /\ UNCHANGED dep_idx
                    ELSE \* the build directory is there, dep.build starts
                         /\ events' = steps(TRUE) \o <<E("build", TRUE)>>
                         /\ pc' = "building"
                         /\ UNCHANGED <<dep_idx, failures>>
    /\ UNCHANGED <<input_vars, run_no, selected_dependencies, build_type, build_types,
                   git, stamps, out_dirs, installed, env_ops, log, executed, run_git, prev_run,
                   manifest, catalog, env_changed>>
    /\ IF pc' = "building"
       THEN \E entered \in {EnvVarContextEnter(
                                environ,
                                BuildEnvVars(flags', selected_dependencies[dep_idx],
                                             build_type))} :
               environ' = entered.environ /\ saved_env_vars' = entered.saved
               /\ UNCHANGED build_call
       ELSE UNCHANGED env_vars
    /\ built_on' = IF pc' = "building"
                   THEN LET dep == selected_dependencies[dep_idx] IN
                        [built_on EXCEPT ![<<dep, build_type>>] = <<BuildStampOf(git, dep)>>]
                   ELSE built_on

\* save_build_stamp_for_dependency with a stamp path that leaves out the build type.
save_build_stamp_one_path(dep, bt) ==
    [stamps EXCEPT ![<<dep, BUILD_TYPE_COMMON>>] = <<get_build_stamp_for_dependency(dep)>>]

\* Builder.save_build_stamp_for_dependency: the stamp files after it.
save_build_stamp_for_dependency(dep, bt) ==
    [stamps EXCEPT ![<<dep, bt>>] = <<get_build_stamp_for_dependency(dep)>>]

\* FinishBuild writing the stamp before the build operation has returned.
FinishBuildStampFirst ==
    /\ pc = "building"
    /\ build_call.status \in {"none", "returned", "raised"}
    /\ LET dep == selected_dependencies[dep_idx]
           bt == build_type
       IN /\ stamps' = save_build_stamp_for_dependency(dep, bt)
          /\ \E built \in BuildOutcomes :
             IF built
             THEN /\ UNCHANGED failures
                  /\ events' = Append(events, Event("save_build_stamp", dep, bt, TRUE))
                  /\ dep_idx' = next_dep_idx(dep_idx, TRUE)
                  /\ pc' = "deps"
             ELSE /\ pc' = "aborted"
                  /\ failures' = failures + 1
                  /\ events' = Append(events, Event("build_failed", dep, bt, FALSE))
                  /\ UNCHANGED dep_idx
    /\ UNCHANGED <<input_vars, run_no, selected_dependencies, build_type, build_types,
                   git, src_dirs, out_dirs, installed, env_ops, log, executed, run_git,
                   prev_run,
                   built_on, flag_vars, fossa_modules, manifest, catalog, env_changed>>
    /\ environ' = EnvVarContextExit(BuildEnviron(selected_dependencies[dep_idx], environ),
                                    saved_env_vars)
    /\ saved_env_vars' = NoEnvVars
    /\ build_call' = NoBuildCall

\* build_dependency: dep.build returns, and the stamp is saved; or it raises.
FinishBuild ==
    /\ pc = "building"
    /\ build_call.status \in {"none", "returned", "raised"}
    /\ LET dep == selected_dependencies[dep_idx]
           bt == build_type
       IN \E built \in BuildOutcomes :
          IF built /\ ~stamp_inputs_exist(git, dep)
          THEN \* save_build_stamp_for_dependency: computing the stamp is fatal
               /\ pc' = "aborted"
               /\ events' = Append(events, Event("get_build_stamp", dep, bt, FALSE))
               /\ UNCHANGED <<stamps, dep_idx, failures>>
          ELSE IF built
          THEN /\ stamps' = save_build_stamp_for_dependency(dep, bt)
               /\ UNCHANGED failures
               /\ events' = Append(events, Event("save_build_stamp", dep, bt, TRUE))
               /\ dep_idx' = next_dep_idx(dep_idx, TRUE)
               /\ pc' = "deps"
          ELSE /\ pc' = "aborted"
               /\ failures' = failures + 1
               /\ events' = Append(events, Event("build_failed", dep, bt, FALSE))
               /\ UNCHANGED <<stamps, dep_idx>>
    /\ UNCHANGED <<input_vars, run_no, selected_dependencies, build_type, build_types,
                   git, src_dirs, out_dirs, installed, env_ops, log, executed, run_git,
                   prev_run,
                   built_on, flag_vars, fossa_modules, manifest, catalog, env_changed>>
    /\ environ' = EnvVarContextExit(BuildEnviron(selected_dependencies[dep_idx], environ),
                                    saved_env_vars)
    /\ saved_env_vars' = NoEnvVars
    /\ build_call' = NoBuildCall

Ended == pc \in {"done", "aborted", "rejected"}

\* The (dependency, build type) pairs of this run's events of the given kinds
\* and values.
PairsOf(kinds, vals) ==
    {<<events[i].dep, events[i].bt>> :
        i \in {j \in 1..Len(events) : events[j].ev \in kinds /\ events[j].val \in vals}}

\* The orchestrator is started again, with the same command line.
StartNextRun ==
    /\ Ended
    /\ run_no < MaxRuns
    /\ run_no' = run_no + 1
    /\ pc' = "start"
    /\ selected_dependencies' = <<>>
    /\ build_type' = None
    /\ build_types' = <<>>
    /\ dep_idx' = 0
    /\ log' = <<>>
    /\ events' = <<>>
    /\ executed' = <<>>
    /\ prev_run' = [ended |-> pc, env_changed |-> env_changed, git |-> run_git,
                    built |-> PairsOf({"save_build_stamp"}, {TRUE}),
                    current |-> PairsOf({"save_build_stamp"}, {TRUE})
                                \cup PairsOf({"should_rebuild"}, {FALSE}),
                    flags |-> NoFlags]
    /\ env_changed' = FALSE
    /\ flags' = NoFlags
    /\ additional_allowed_shared_lib_paths' = {}
    /\ set_order' = [bt \in Range(BUILD_TYPES) |-> "unset"]
    /\ fossa_modules' = <<>>
    /\ environ' = InheritedEnviron
    /\ saved_env_vars' = NoEnvVars
    /\ build_call' = NoBuildCall
    /\ catalog' = <<>>
    /\ UNCHANGED <<input_vars, fs_vars, run_git, built_on, manifest>>

\* ---------------------------------------------------------- the developer

\* The developer acts between runs.
EnvMayAct == Ended /\ run_no < MaxRuns /\ env_ops < MaxEnvOps

EnvFrame ==
    /\ env_ops' = env_ops + 1
    /\ env_changed' = TRUE
    /\ UNCHANGED <<input_vars, pc, run_no, selected_dependencies, build_type, build_types,
                   dep_idx, stamps, src_dirs, out_dirs, installed, failures, log, events, executed,
                   run_git, prev_run, built_on, flag_vars, fossa_modules, manifest, catalog, env_vars>>

\* A tracked file gets new content in the working tree.
EditFile ==
    /\ EnvMayAct
    /\ \E f \in EditedFiles, c \in Contents :
          /\ git.work[f] # c
          /\ git' = [git EXCEPT !.work[f] = c]
    /\ EnvFrame

\* git add: the working-tree content of a file is staged.
StageFile ==
    /\ EnvMayAct
    /\ \E f \in Files :
          /\ git.index[f] # git.work[f]
          /\ git' = [git EXCEPT !.index[f] = git.work[f]]
    /\ EnvFrame

\* git commit: the staged changes become a new commit.
Commit ==
    /\ EnvMayAct
    /\ \E f \in Files : git.head[f] # git.index[f]
    /\ LET n == git.commits + 1
           touched == {f \in Files : git.head[f] # git.index[f]}
       IN git' = [git EXCEPT !.commits = n,
                             !.head = git.index,
                             !.last_commit = [f \in Files |->
                                  IF f \in touched THEN n ELSE git.last_commit[f]]]
    /\ EnvFrame

\* A tracked file gets new content while a build operation is running.
EditWhileBuilding ==
    /\ pc = "building"
    /\ env_ops < MaxEnvOps
    /\ \E f \in EditedFiles, c \in Contents :
          /\ git.work[f] # c
          /\ git' = [git EXCEPT !.work[f] = c]
    /\ EnvFrame

\* One run of the orchestrator.
NextRun ==
    \/ ParseArgs
    \/ FinishInitialization
    \/ Run
    \/ RunLoop
    \/ RunFinish
    \/ EndBuildType
    \/ SkipDependency
    \/ ProcessDependency
    \/ FinishBuild

\* Runs, restarts and the developer's operations.
Next ==
    \/ ParseArgs
    \/ FinishInitialization
    \/ Run
    \/ RunLoop
    \/ RunFinish
    \/ EndBuildType
    \/ SkipDependency
    \/ ProcessDependency
    \/ FinishBuild
    \/ StartNextRun
    \/ EditFile
    \/ StageFile
    \/ Commit

Spec == Init /\ [][NextRun]_vars

SpecRerun == InitRerun /\ [][Next]_vars

\* One run, the developer editing files while it builds.
NextConcurrent ==
    \/ ParseArgs
    \/ FinishInitialization
    \/ Run
    \/ RunLoop
    \/ RunFinish
    \/ EndBuildType
    \/ SkipDependency
    \/ ProcessDependency
    \/ FinishBuild
    \/ EditWhileBuilding

SpecConcurrent == InitRerun /\ [][NextConcurrent]_vars

\* --------------------------------------- runs on a tree that loses a file

\* One run on a fresh build tree with Clang 10 on Linux, of all build types.
InitMissing ==
    /\ Inputs({"Linux"}, {<<"clang", <<10>>>>}, {None}, {FALSE}, {FALSE},
              {<<<<"boost", "zlib">>, <<>>>>}, {[d \in DepNames |-> TRUE]})
    /\ ubsan_lib_exists = TRUE
    /\ InitProcess
    /\ git = CleanGit
    /\ stamps = StampsLeftFor({})
    /\ src_dirs = {}
    /\ out_dirs = {}
    /\ installed = NoInstalledTree
    /\ manifest = NoManifest
    /\ catalog = <<>>
    /\ env_ops = 0
    /\ failures = 0

\* One of the files a stamp is computed from is removed from the working tree,
\* before the run or while it is under way.
DeleteFile ==
    /\ ~Ended
    /\ env_ops < MaxEnvOps
    /\ \E f \in Files \ git.missing :
          git' = [git EXCEPT !.missing = @ \cup {f}]
    /\ EnvFrame

NextMissing ==
    \/ ParseArgs
    \/ FinishInitialization
    \/ Run
    \/ RunLoop
    \/ RunFinish
    \/ EndBuildType
    \/ SkipDependency
    \/ ProcessDependency
    \/ FinishBuild
    \/ DeleteFile

SpecMissing == InitMissing /\ [][NextMissing]_vars

\* ------------------------------------- the output directories alone

\* What the process may find under installed/: lib and include there or not,
\* and anything at lib64, the same in every build type directory and the same
\* in every libcxx subdirectory.
TreesBefore ==
    {[d \in OutDirs |->
         [lib |-> made, include |-> made,
          lib64 |-> IF d \in {InstalledDir(bt, "") : bt \in Range(BUILD_TYPES)}
                    THEN in_root ELSE in_libcxx]] :
        made \in BOOLEAN, in_root \in Lib64Kinds, in_libcxx \in Lib64Kinds}

\* A process started on a tree that something has been installed in before.
InitOutDirs ==
    /\ Inputs({"Linux"}, {<<"clang", <<10>>>>}, {None}, {FALSE}, {FALSE},
              {<<<<>>, <<>>>>}, {[d \in DepNames |-> TRUE]})
    /\ ubsan_lib_exists = TRUE
    /\ InitProcess
    /\ git = CleanGit
    /\ stamps = StampsLeftFor({})
    /\ src_dirs = {}
    /\ out_dirs = {}
    /\ installed \in TreesBefore
    /\ manifest = NoManifest
    /\ catalog = <<>>
    /\ env_ops = 0
    /\ failures = 0

\* Builder.run: prepare_out_dirs.
PrepareOutDirs ==
    /\ pc = "initialized"
    /\ LET r == prepare_installed_tree(installed) IN
       /\ installed' = r.tree
       /\ out_dirs' = IF r.raised THEN out_dirs ELSE out_dirs \cup prepare_out_dirs
       /\ pc' = IF r.raised THEN "aborted" ELSE "prepared"
    /\ UNCHANGED <<input_vars, run_no, selected_dependencies, build_type, build_types,
                   dep_idx, git, stamps, src_dirs, env_ops, failures, log, events,
                   executed, run_git, prev_run, built_on, flag_vars, fossa_modules,
                   manifest, catalog, env_vars, env_changed>>

\* Another process is started on the tree the process before it prepared.
RestartOutDirs ==
    /\ pc = "prepared"
    /\ run_no < MaxRuns
    /\ run_no' = run_no + 1
    /\ pc' = "initialized"
    /\ UNCHANGED <<input_vars, selected_dependencies, build_type, build_types, dep_idx,
                   fs_vars, log, events, executed, run_git, prev_run, built_on,
                   flag_vars, fossa_modules, manifest, catalog, env_vars, env_changed>>

NextOutDirs ==
    \/ ParseArgs
    \/ FinishInitialization
    \/ PrepareOutDirs
    \/ RestartOutDirs

SpecOutDirs == InitOutDirs /\ [][NextOutDirs]_vars

\* ------------------------------------------- the rebuild decision alone

\* The stamp files a pair may have: none, or the stamp of some state of the
\* repository.
StampChoices(dep) == {<<>>} \cup {<<BuildStampOf(g, dep)>> : g \in GitBefore}

\* The Builder about to call should_rebuild_dependency(dep) under a build type
\* of the group of dep: any stamp file, the source directory there or not, the
\* dependency declaring a source directory name or none.
InitDecide ==
    /\ platform = "Linux" /\ single_compiler_type = "clang" /\ llvm_major_version = <<10>>
    /\ args = [build_type |-> None, skip_sanitizers |-> FALSE,
               download_extract_only |-> FALSE, dependencies |-> <<>>, skip |-> <<>>]
    /\ dep_should_build = [d \in DepNames |-> TRUE]
    /\ git \in GitBefore
    /\ InitFlagState
    /\ built_on = [p \in AllPairs |-> <<>>]
    /\ fossa_modules = <<>>
    /\ environ = InheritedEnviron
    /\ saved_env_vars = NoEnvVars
    /\ build_call = NoBuildCall
    /\ pc = "decide" /\ run_no = 1 /\ build_types = <<>> /\ dep_idx = 1
    /\ log = <<>> /\ events = <<>> /\ executed = <<>>
    /\ run_git = git /\ env_changed = FALSE
    /\ prev_run = [ended |-> None, env_changed |-> FALSE, git |-> CleanGit,
                   built |-> {}, current |-> {}, flags |-> NoFlags]
    /\ \E dep \in DepNames, bt \in Range(BUILD_TYPES), declared \in BOOLEAN :
          /\ BuildGroupOf(bt) = build_group(dep)
          /\ selected_dependencies = <<dep>>
          /\ build_type = bt
          /\ dep_dir_name = [d \in DepNames |-> IF declared THEN <<d>> ELSE <<>>]
          /\ dep_additional_flags = [d \in DepNames |-> NoAdditionalFlags]
          /\ dep_archive_name = ArchiveNames
          /\ ubsan_lib_exists = TRUE
          /\ \E st \in StampChoices(dep) :
                stamps = [StampsLeftFor({}) EXCEPT ![<<dep, bt>>] = st]
    /\ src_dirs \in {{}, DepNames}
    /\ out_dirs = {}
    /\ installed = NoInstalledTree
    /\ manifest = NoManifest
    /\ catalog = populate_dependencies
    /\ env_ops = 0
    /\ failures = 0

\* should_rebuild_dependency(dep) is called and returns.
DecideRebuild ==
    /\ pc = "decide"
    /\ pc' = "decided"
    /\ LET dep == selected_dependencies[1] IN
       events' = <<Event("should_rebuild", dep, build_type,
                         should_rebuild_dependency(dep, build_type))>>
    /\ UNCHANGED <<input_vars, run_no, selected_dependencies, build_type, build_types,
                   dep_idx, fs_vars, log, executed, run_git, prev_run,
                   built_on, flag_vars, fossa_modules, manifest, catalog, env_vars, env_changed>>

NextDecide == DecideRebuild

SpecDecide == InitDecide /\ [][NextDecide]_vars

\* ------------------------------------------------- the selection alone

\* The lists of at most MaxNames names, of the catalog or not.
NameLists ==
    LET names == DepNames \cup {"nosuch"} IN
    UNION {[1..n -> names] : n \in 0..MaxNames}

\* A process about to select its dependencies, for any include list or any
\* skip list of at most MaxNames names.
InitSelect ==
    /\ Inputs({"Linux"}, {<<"clang", <<10>>>>}, {None}, {FALSE}, {FALSE},
              {<<l, <<>>>> : l \in NameLists} \cup {<<<<>>, l>> : l \in NameLists},
              {[d \in DepNames |-> TRUE]})
    /\ ubsan_lib_exists = TRUE
    /\ InitProcess
    /\ git = CleanGit
    /\ stamps = StampsLeftFor({})
    /\ src_dirs = {}
    /\ out_dirs = {}
    /\ installed = NoInstalledTree
    /\ manifest = NoManifest
    /\ catalog = <<>>
    /\ env_ops = 0
    /\ failures = 0

NextSelect ==
    \/ ParseArgs
    \/ FinishInitialization

SpecSelect == InitSelect /\ [][NextSelect]_vars

\* -------------------------------------------- the flag derivation alone

\* A process about to derive the flags of one dependency under one build type
\* of its group, on any platform, with any compiler.
InitFlags ==
    /\ platform \in Platforms
    /\ \E c \in Compilers :
          /\ single_compiler_type = c[1]
          /\ llvm_major_version = c[2]
    /\ args = [build_type |-> None, skip_sanitizers |-> FALSE,
               download_extract_only |-> FALSE, dependencies |-> <<>>, skip |-> <<>>]
    /\ dep_should_build = [d \in DepNames |-> TRUE]
    /\ dep_dir_name = [d \in DepNames |-> <<d>>]
    /\ \E extra \in AdditionalFlagChoices :
          dep_additional_flags = [d \in DepNames |-> extra]
    /\ dep_archive_name = ArchiveNames
    /\ ubsan_lib_exists \in UbsanLibChoices
    /\ InitFlagState
    /\ built_on = [p \in AllPairs |-> <<>>]
    /\ fossa_modules = <<>>
    /\ environ = InheritedEnviron
    /\ saved_env_vars = NoEnvVars
    /\ build_call = NoBuildCall
    /\ pc = "flags" /\ run_no = 1 /\ build_types = <<>> /\ dep_idx = 1
    /\ log = <<>> /\ events = <<>> /\ executed = <<>>
    /\ git = CleanGit /\ run_git = CleanGit /\ env_changed = FALSE
    /\ prev_run = [ended |-> None, env_changed |-> FALSE, git |-> CleanGit,
                   built |-> {}, current |-> {}, flags |-> NoFlags]
    /\ \E dep \in DepNames, bt \in Range(BUILD_TYPES) :
          /\ BuildGroupOf(bt) = build_group(dep)
          /\ selected_dependencies = <<dep>>
          /\ build_type = bt
    /\ stamps = StampsLeftFor({})
    /\ src_dirs = DepNames
    /\ out_dirs = {}
    /\ installed = NoInstalledTree
    /\ manifest = NoManifest
    /\ catalog = populate_dependencies
    /\ env_ops = 0
    /\ failures = 0

\* build_dependency(dep, only_process_flags=True): the flags are derived.
DeriveFlags ==
    /\ pc = "flags"
    /\ LET dep == selected_dependencies[1]
           bt == build_type
       IN \E order \in OrdersOf(bt), found \in ProbeOutcomes(dep, bt) :
          LET r == build_dependency_flag_steps(
                       FlagState(flags, additional_allowed_shared_lib_paths),
                       dep, bt, order, found, TRUE)
          IN /\ flags' = FlagLists(r.b)
             /\ additional_allowed_shared_lib_paths' =
                    r.b.additional_allowed_shared_lib_paths
             /\ set_order' = [set_order EXCEPT ![bt] = order]
             /\ events' = <<Event("init_flags", dep, bt, ~r.raised)>>
             /\ pc' = IF r.raised THEN "aborted" ELSE "flags_done"
             /\ failures' = IF found THEN failures ELSE failures + 1
    /\ UNCHANGED <<input_vars, run_no, selected_dependencies, build_type, build_types,
                   dep_idx, git, stamps, src_dirs, out_dirs, installed, env_ops, log, executed,
                   run_git, prev_run, built_on, env_changed,
                   fossa_modules, manifest, catalog, env_vars>>

\* Another process is started for the same derivation on the same machine; what
\* the process before it derived is kept for comparison.
RestartFlags ==
    /\ pc = "flags_done"
    /\ run_no < MaxRuns
    /\ run_no' = run_no + 1
    /\ pc' = "flags"
    /\ events' = <<>>
    /\ prev_run' = [prev_run EXCEPT !.ended = pc, !.flags = flags]
    /\ flags' = NoFlags
    /\ additional_allowed_shared_lib_paths' = {}
    /\ set_order' = [bt \in Range(BUILD_TYPES) |-> "unset"]
    /\ UNCHANGED <<input_vars, selected_dependencies, build_type, build_types, dep_idx,
                   fs_vars, log, executed, run_git, built_on, env_changed,
                   fossa_modules, manifest, catalog, env_vars>>

NextFlags ==
    \/ DeriveFlags
    \/ RestartFlags

SpecFlags == InitFlags /\ [][NextFlags]_vars

\* -------------------------------------------- build_with_cmake and build_with_configure

\* One step of a build call: op is "pushdir" (a PushDir context is entered), "popdir"
\* (it is left), "run" (log_output runs an external command) or "check" (the recorded
\* compile commands are read and checked); in_try tells a command run inside the try
\* block of build_with_configure.
Step(op, arg, in_try) == [op |-> op, arg |-> arg, in_try |-> in_try]

\* self.prefix: the install prefix of the build type.
prefix(bt) == "installed/" \o bt

BUILD_SHARED_LIBS == "-DBUILD_SHARED_LIBS="
CMakeValues == {"", "ON", "OFF"}

\* arg.startswith(prefix), over the values a cmake setting is given here.
startswith(arg, front) == \E rest \in CMakeValues : arg = front \o rest

\* get_common_cmake_flag_args
get_common_cmake_flag_args(fl, dep, bt) ==
    << "-DCMAKE_C_FLAGS=" \o Join(get_effective_c_flags(fl, dep)),
       "-DCMAKE_CXX_FLAGS=" \o Join(get_effective_cxx_flags(fl, dep)),
       "-DCMAKE_SHARED_LINKER_FLAGS=" \o Join(get_effective_ld_flags(fl, dep)),
       "-DCMAKE_EXE_LINKER_FLAGS=" \o Join(get_effective_executable_ld_flags(fl, dep)),
       "-DCMAKE_EXPORT_COMPILE_COMMANDS=ON",
       "-DCMAKE_INSTALL_PREFIX=" \o prefix(bt),
       "-DCMAKE_POSITION_INDEPENDENT_CODE=ON" >>

\* build_with_cmake: the build tool.
build_tool(c) == IF c.use_ninja_if_available THEN "ninja" ELSE "make"

\* build_with_cmake: args, before the BUILD_SHARED_LIBS setting is looked at.
cmake_args(c, fl, dep, bt) ==
    <<"cmake", "src_path">>
    \o (IF build_tool(c) = "ninja" THEN <<"-G", "Ninja">> ELSE <<>>)
    \o get_common_cmake_flag_args(fl, dep, bt)
    \o c.extra_args
    \o c.additional_cmake_args

\* build_with_cmake: the ValueError for shared_and_static=True.
build_shared_libs_rejected(cmd, shared_and_static) ==
    shared_and_static /\ \E i \in 1..Len(cmd) : startswith(cmd[i], BUILD_SHARED_LIBS)

\* build_with_cmake appending BUILD_SHARED_LIBS=ON whatever the arguments hold.
with_build_shared_libs_always(cmd, shared_and_static) ==
    IF ~shared_and_static THEN Append(cmd, "-DBUILD_SHARED_LIBS=ON") ELSE cmd

\* build_with_cmake: BUILD_SHARED_LIBS=ON is appended to args.
with_build_shared_libs(cmd, shared_and_static) ==
    IF "-DBUILD_SHARED_LIBS=OFF" \notin Range(cmd) /\ ~shared_and_static
    THEN Append(cmd, "-DBUILD_SHARED_LIBS=ON")
    ELSE cmd

\* build_internal: cmake, the build tool, the install targets, then the check of the
\* recorded compile commands.
build_internal(c, cmd, even_more_cmake_args) ==
    <<Step("run", cmd \o even_more_cmake_args, FALSE),
      Step("run", <<build_tool(c), "-j">>, FALSE)>>
    \o (IF c.should_install THEN <<Step("run", <<build_tool(c), "install">>, FALSE)>>
        ELSE <<>>)
    \o <<Step("check", <<>>, FALSE)>>

\* build_with_cmake: the sub-builds of shared_and_static=True.
shared_and_static_builds ==
    << <<"ON", "shared">>, <<"OFF", "static">> >>

\* build_with_cmake: one sub-build, in its own directory.
sub_build(c, cmd, pair) ==
    <<Step("pushdir", <<pair[2]>>, FALSE)>>
    \o build_internal(c, cmd, <<BUILD_SHARED_LIBS \o pair[1]>>)
    \o <<Step("popdir", <<>>, FALSE)>>

\* build_with_cmake: the steps after the arguments were accepted.
build_with_cmake_steps(c, cmd) ==
    IF c.shared_and_static
    THEN sub_build(c, cmd, shared_and_static_builds[1])
         \o sub_build(c, cmd, shared_and_static_builds[2])
    ELSE build_internal(c, cmd, <<>>)

\* build_with_configure: the commands of the try block.
configure_commands(c, bt) ==
    (IF c.run_autogen THEN <<Step("run", <<"./autogen.sh">>, TRUE)>> ELSE <<>>)
    \o (IF c.autoconf THEN <<Step("run", <<"autoreconf", "-i">>, TRUE)>> ELSE <<>>)
    \o <<Step("run", <<"./configure", "--prefix=" \o prefix(bt)>> \o c.extra_args, TRUE)>>

\* build_with_configure: the steps, all inside PushDir(dir_for_build).
build_with_configure_steps(c, bt) ==
    <<Step("pushdir", c.src_subdir_name, FALSE)>>
    \o configure_commands(c, bt)
    \o <<Step("run", <<"make", "-j">>, FALSE)>>
    \o (IF c.install # <<>> THEN <<Step("run", <<"make">> \o c.install, FALSE)>> ELSE <<>>)
    \o <<Step("popdir", <<>>, FALSE)>>

\* os.path.join(cwd, name) for the directory a PushDir context enters; no name is the
\* working directory itself.
JoinPath(cwd, name) == IF name = <<>> THEN cwd ELSE cwd \o "/" \o name[1]

\* PushDir.__enter__
PushDirEnter(bc, name) ==
    [bc EXCEPT !.saved = Append(bc.saved, bc.cwd), !.cwd = JoinPath(bc.cwd, name)]

\* PushDir.__exit__
PushDirExit(bc) ==
    [bc EXCEPT !.cwd = bc.saved[Len(bc.saved)],
               !.saved = SubSeq(bc.saved, 1, Len(bc.saved) - 1)]

RECURSIVE PushDirExitAll(_)
\* An exception leaves every PushDir context entered, the innermost first.
PushDirExitAll(bc) ==
    IF bc.saved = <<>> THEN bc ELSE PushDirExitAll(PushDirExit(bc))

\* The step made: the call goes on with the rest, or returns.
Advance(bc) ==
    [bc EXCEPT !.todo = Tail(bc.todo),
               !.status = IF Tail(bc.todo) = <<>> THEN "returned" ELSE "running"]

\* An exception raised in the call.
Raise(bc, error) ==
    [PushDirExitAll(bc) EXCEPT !.status = "raised", !.error = error, !.todo = <<>>]

\* build_internal: the sanitizer options every recorded compile command must have.
required_sanitizer_args(bt) ==
    IF bt = BUILD_TYPE_ASAN THEN {"-fsanitize=address", "-fsanitize=undefined"}
    ELSE IF bt = BUILD_TYPE_TSAN THEN {"-fsanitize=thread"}
    ELSE {}

\* build_internal checking the first recorded compile command only.
compile_commands_pass_first_only(bt, compile_commands) ==
    required_sanitizer_args(bt) \subseteq Range(compile_commands[1])

\* build_internal: the loop over compile_commands.json (assert_list_contains).
compile_commands_pass(bt, compile_commands) ==
    \A i \in 1..Len(compile_commands) :
        required_sanitizer_args(bt) \subseteq Range(compile_commands[i])

\* The split() of one compile command a build may record.
CompileCommands ==
    { <<"cc", "-fsanitize=address", "-fsanitize=undefined">>,
      <<"cc", "-fsanitize=address">>, <<"cc", "-fsanitize=undefined">>,
      <<"cc", "-fsanitize=thread">>, <<"cc">> }

\* The compile_commands.json files a build may record.
CompileCommandFiles ==
    UNION {[1..n -> CompileCommands] : n \in 1..MaxCommands}

\* The calls a recipe may make.
CMakeCalls ==
    {[NoCallArgs EXCEPT !.extra_args = extra, !.additional_cmake_args = more,
                        !.use_ninja_if_available = ninja, !.should_install = inst,
                        !.shared_and_static = both] :
        extra \in {<<>>, <<"-DBUILD_SHARED_LIBS=ON">>, <<"-DBUILD_SHARED_LIBS=OFF">>},
        more \in {<<>>, <<"-DBUILD_SHARED_LIBS=OFF">>},
        ninja \in BOOLEAN, inst \in BOOLEAN, both \in BOOLEAN}

ConfigureCalls ==
    {[NoCallArgs EXCEPT !.run_autogen = autogen, !.autoconf = autoconf,
                        !.install = inst, !.src_subdir_name = sub,
                        !.config_logs = logs] :
        autogen \in BOOLEAN, autoconf \in BOOLEAN,
        inst \in {<<"install">>, <<>>}, sub \in {<<>>, <<"src">>},
        logs \in {<<>>, <<"./config.log">>, <<"./config.log", "./lib/config.log">>}}

\* A dependency of the instrumented group is being built under one of its build
\* types, and its recipe calls build_with_cmake or build_with_configure.
InitBuildTool ==
    /\ platform = "Linux"
    /\ single_compiler_type = "clang"
    /\ llvm_major_version = <<10>>
    /\ args = [build_type |-> None, skip_sanitizers |-> FALSE,
               download_extract_only |-> FALSE, dependencies |-> <<>>, skip |-> <<>>]
    /\ dep_should_build = [d \in DepNames |-> TRUE]
    /\ dep_dir_name = [d \in DepNames |-> <<d>>]
    /\ dep_additional_flags = [d \in DepNames |-> NoAdditionalFlags]
    /\ dep_archive_name = ArchiveNames
    /\ ubsan_lib_exists = TRUE
    /\ InitFlagState
    /\ built_on = [p \in AllPairs |-> <<>>]
    /\ fossa_modules = <<>>
    /\ selected_dependencies = <<"llvm1x_libcxx">>
    /\ build_type \in {BUILD_TYPE_UNINSTRUMENTED, BUILD_TYPE_ASAN, BUILD_TYPE_TSAN}
    /\ \E entered \in {EnvVarContextEnter(
                           InheritedEnviron,
                           BuildEnvVars(NoFlags, "llvm1x_libcxx", build_type))} :
          environ = entered.environ /\ saved_env_vars = entered.saved
    /\ \/ \E c \in CMakeCalls :
             build_call = [NoBuildCall EXCEPT !.status = "called", !.kind = "cmake",
                                              !.call = c]
       \/ \E c \in ConfigureCalls :
             build_call = [NoBuildCall EXCEPT !.status = "called", !.kind = "configure",
                                              !.call = c]
    /\ pc = "building" /\ run_no = 1 /\ build_types = <<>> /\ dep_idx = 1
    /\ log = <<>> /\ events = <<>> /\ executed = <<>>
    /\ git = CleanGit /\ run_git = CleanGit /\ env_changed = FALSE
    /\ prev_run = [ended |-> None, env_changed |-> FALSE, git |-> CleanGit,
                   built |-> {}, current |-> {}, flags |-> NoFlags]
    /\ stamps = StampsLeftFor({})
    /\ src_dirs = DepNames
    /\ out_dirs = {}
    /\ installed = NoInstalledTree
    /\ manifest = NoManifest
    /\ catalog = populate_dependencies
    /\ env_ops = 0
    /\ failures = 0

\* What a step of a build call leaves alone.
BuildCallFrame ==
    UNCHANGED <<input_vars, fs_vars, pc, run_no, selected_dependencies, build_type,
                build_types, dep_idx, log, events, executed, run_git, prev_run,
                env_changed, built_on, flag_vars, fossa_modules, manifest, catalog, environ,
                saved_env_vars>>

\* build_with_cmake, up to the first build_internal: the arguments are assembled, and
\* shared_and_static=True with a BUILD_SHARED_LIBS setting among them is rejected.
BuildWithCMake ==
    /\ pc = "building"
    /\ build_call.status = "called"
    /\ build_call.kind = "cmake"
    /\ LET c == build_call.call
           cmd == cmake_args(c, flags, selected_dependencies[dep_idx], build_type)
       IN build_call' =
              IF build_shared_libs_rejected(cmd, c.shared_and_static)
              THEN Raise(build_call, "ValueError")
              ELSE [build_call EXCEPT
                       !.status = "running",
                       !.todo = build_with_cmake_steps(
                                    c, with_build_shared_libs(cmd, c.shared_and_static))]
    /\ BuildCallFrame

\* build_with_configure, up to PushDir(dir_for_build).
BuildWithConfigure ==
    /\ pc = "building"
    /\ build_call.status = "called"
    /\ build_call.kind = "configure"
    /\ build_call' = [build_call EXCEPT
                         !.status = "running",
                         !.todo = build_with_configure_steps(build_call.call, build_type)]
    /\ BuildCallFrame

\* with PushDir(...): the context is entered.
EnterDir ==
    /\ build_call.status = "running"
    /\ build_call.todo[1].op = "pushdir"
    /\ build_call' = Advance(PushDirEnter(build_call, build_call.todo[1].arg))
    /\ BuildCallFrame

\* with PushDir(...): the end of the block is reached.
LeaveDir ==
    /\ build_call.status = "running"
    /\ build_call.todo[1].op = "popdir"
    /\ build_call' = Advance(PushDirExit(build_call))
    /\ BuildCallFrame

\* build_with_configure with an except clause that logs no file.
log_config_logs_never(bc, step) == bc.logged

\* build_with_configure, the except clause: the config.log files are logged.
log_config_logs(bc, step) == IF step.in_try THEN bc.call.config_logs ELSE bc.logged

\* log_output: an external command runs in the working directory and comes back, or
\* fails; a failure inside the try block of build_with_configure logs the config.log
\* files and is raised again.
RunCommand ==
    /\ build_call.status = "running"
    /\ build_call.todo[1].op = "run"
    /\ LET step == build_call.todo[1]
           ran == [build_call EXCEPT
                      !.commands = Append(@, [cmd |-> step.arg, cwd |-> build_call.cwd])]
       IN \E ok \in BOOLEAN :
             build_call' =
                 IF ok THEN Advance(ran)
                 ELSE Raise([ran EXCEPT !.logged = log_config_logs(ran, step)],
                            "CalledProcessError")
    /\ BuildCallFrame

\* build_internal: compile_commands.json is read, and every command is checked for
\* the sanitizer options of the build type.
CheckCompileCommands ==
    /\ build_call.status = "running"
    /\ build_call.todo[1].op = "check"
    /\ \E compile_commands \in CompileCommandFiles :
          LET read == [build_call EXCEPT
                          !.checked = Append(@, [commands |-> compile_commands,
                                                 cwd |-> build_call.cwd])]
          IN build_call' =
                 IF compile_commands_pass(build_type, compile_commands)
                 THEN Advance(read)
                 ELSE Raise(read, "AssertionError")
    /\ BuildCallFrame

NextBuildTool ==
    \/ BuildWithCMake
    \/ BuildWithConfigure
    \/ EnterDir
    \/ LeaveDir
    \/ RunCommand
    \/ CheckCompileCommands
    \/ FinishBuild

SpecBuildTool == InitBuildTool /\ [][NextBuildTool]_vars

\* -------------------------------------------- the Boost recipe

\* A line of project-config.jam: its leading white space and the rest of it.
Line(lead, body) == [lead |-> lead, body |-> body]

\* line.lstrip()
lstrip(line) == line.body

\* What follows the beginning of a line of project-config.jam.
LineRests == {"", " --with-python ;", " # gcc", " : 8 ;"}

\* str.startswith, for the lines of project-config.jam.
line_startswith(text, front) == \E rest \in LineRests : text = front \o rest

\* BoostDependency.build: the lines of project-config.jam that are not written back.
line_is_dropped(line) ==
    \/ line_startswith(lstrip(line), "libraries =")
    \/ line_startswith(lstrip(line), "using gcc ;")
    \/ line_startswith(lstrip(line), "project : default-build <toolset>gcc ;")

RECURSIVE JoinPrefixed(_, _)
\* ' '.join([front + item for item in items])
JoinPrefixed(front, items) ==
    IF items = <<>> THEN ""
    ELSE IF Len(items) = 1 THEN front \o items[1]
    ELSE front \o items[1] \o " " \o JoinPrefixed(front, Tail(items))

\* builder.compiler_choice.get_cxx_compiler()
get_cxx_compiler(compiler_type) == IF compiler_type = "clang" THEN "clang++" ELSE "g++"

\* BoostDependency.build: the libraries built.
libs == <<"system", "thread", "atomic">>

\* PROJECT_CONFIG.format(...): the lines of the block written after the lines kept.
PROJECT_CONFIG(toolset, version, cxx, compileflags, linkflags, libraries) ==
    << Line("", ""),
       Line("", "libraries = " \o libraries \o " ;"),
       Line("", ""),
       Line("", "using " \o toolset \o " : " \o version \o " :"),
       Line("    ", cxx \o " :"),
       Line("    ", compileflags),
       Line("    ", linkflags \o " ;") >>

\* BoostDependency.build writing every compiler type under its own name.
toolset_and_version_as_is(compiler_type) == <<compiler_type, "">>

\* BoostDependency.build: the toolset and the version written for a compiler type.
toolset_and_version(compiler_type) ==
    IF compiler_type = "gcc8" THEN <<"gcc", "8">> ELSE <<compiler_type, "">>

\* BoostDependency.build: the block written, from the flags of the builder.
generated_block(fl, compiler_type) ==
    LET cxx_flags == fl.compiler_flags \o fl.cxx_flags IN
    PROJECT_CONFIG(toolset_and_version(compiler_type)[1],
                   toolset_and_version(compiler_type)[2],
                   get_cxx_compiler(compiler_type),
                   JoinPrefixed("<compileflags>", cxx_flags),
                   JoinPrefixed("<linkflags>", cxx_flags \o fl.ld_flags),
                   JoinPrefixed("--with-", libs))

\* BoostDependency.build: project-config.jam as it is written back.
rewrite_project_config(original_lines, fl, compiler_type) ==
    SelectSeq(original_lines, LAMBDA line : ~line_is_dropped(line))
    \o generated_block(fl, compiler_type)

\* The lines bootstrap.sh may leave in project-config.jam.
ProjectConfigLines ==
    { Line("", "import option ;"),
      Line("", "using gcc ;"),
      Line("    ", "using gcc ;"),
      Line("", "using gcc : 8 ;"),
      Line("", "libraries = --with-python ;"),
      Line("  ", "libraries ="),
      Line("", "# libraries ="),
      Line("    ", "project : default-build <toolset>gcc ;") }

\* The project-config.jam files bootstrap.sh may leave.
ProjectConfigFiles ==
    UNION {[1..n -> ProjectConfigLines] : n \in 0..MaxLines}

\* The flags of the builder when the recipe runs: those derived for boost.
BoostFlags(bt) ==
    FlagLists(build_dependency_flags(FlagState(NoFlags, {}), "boost", bt,
                                     "common_first", TRUE).b)

\* builder.compiler_choice.compiler_type: what it may be while bt is built.
CompilerTypes(bt) == IF building_with_clang(bt) THEN {"clang"} ELSE {"gcc", "gcc8"}

\* boost is being built under one of its build types, with the compiler given.
InitBoost ==
    /\ platform \in {"Linux", "Darwin"}
    /\ single_compiler_type \in (IF is_macos THEN {"clang"} ELSE {None, "gcc", "clang"})
    /\ llvm_major_version = IF single_compiler_type = "clang" THEN <<10>> ELSE <<>>
    /\ args = [build_type |-> None, skip_sanitizers |-> FALSE,
               download_extract_only |-> FALSE, dependencies |-> <<>>, skip |-> <<>>]
    /\ dep_should_build = [d \in DepNames |-> TRUE]
    /\ dep_dir_name = [d \in DepNames |-> <<d>>]
    /\ dep_additional_flags = [d \in DepNames |-> NoAdditionalFlags]
    /\ dep_archive_name = ArchiveNames
    /\ ubsan_lib_exists = TRUE
    /\ selected_dependencies = <<"boost">>
    /\ build_type \in {BUILD_TYPE_UNINSTRUMENTED}
                      \cup (IF is_linux /\ use_only_clang THEN {BUILD_TYPE_ASAN} ELSE {})
    /\ flags = BoostFlags(build_type)
    /\ additional_allowed_shared_lib_paths = {}
    /\ set_order = [bt \in Range(BUILD_TYPES) |-> "unset"]
    /\ built_on = [p \in AllPairs |-> <<>>]
    /\ fossa_modules = <<>>
    /\ \E entered \in {EnvVarContextEnter(InheritedEnviron,
                                          BuildEnvVars(flags, "boost", build_type))} :
          environ = entered.environ /\ saved_env_vars = entered.saved
    /\ \E compiler_type \in CompilerTypes(build_type) :
          build_call = [NoBuildCall EXCEPT !.status = "called", !.kind = "boost",
                                           !.call.compiler_type = compiler_type]
    /\ pc = "building" /\ run_no = 1 /\ build_types = <<>> /\ dep_idx = 1
    /\ log = <<>> /\ events = <<>> /\ executed = <<>>
    /\ git = CleanGit /\ run_git = CleanGit /\ env_changed = FALSE
    /\ prev_run = [ended |-> None, env_changed |-> FALSE, git |-> CleanGit,
                   built |-> {}, current |-> {}, flags |-> NoFlags]
    /\ stamps = StampsLeftFor({})
    /\ src_dirs = DepNames
    /\ out_dirs = {}
    /\ installed = NoInstalledTree
    /\ manifest = NoManifest
    /\ catalog = populate_dependencies
    /\ env_ops = 0
    /\ failures = 0

\* BoostDependency.build: the commands after project-config.jam is written.
boost_install_steps ==
    <<Step("run", <<"./b2", "install", "cxxstd=14">>, FALSE)>>
    \o (IF is_macos
        THEN <<Step("run", <<"install_name_tool", "-id">>, FALSE),
               Step("run", <<"install_name_tool", "-change">>, FALSE)>>
        ELSE <<>>)

\* BoostDependency.build, up to the reading of project-config.jam: bootstrap.sh runs
\* and leaves the file, or fails.
BoostBootstrap ==
    /\ pc = "building"
    /\ build_call.status = "called"
    /\ build_call.kind = "boost"
    /\ LET ran == [build_call EXCEPT
                      !.commands = Append(@, [cmd |-> <<"./bootstrap.sh",
                                                        "--prefix=" \o prefix(build_type)>>,
                                              cwd |-> build_call.cwd])]
       IN \/ build_call' = Raise(ran, "CalledProcessError")
          \/ \E left \in ProjectConfigFiles :
                build_call' = [ran EXCEPT
                                  !.status = "running",
                                  !.project_config = left,
                                  !.todo = <<Step("rewrite", <<>>, FALSE)>>
                                           \o boost_install_steps]
    /\ BuildCallFrame

\* BoostDependency.build: project-config.jam is read and written back.
RewriteProjectConfig ==
    /\ build_call.status = "running"
    /\ build_call.todo[1].op = "rewrite"
    /\ build_call' =
           Advance([build_call EXCEPT
                       !.original_lines = build_call.project_config,
                       !.project_config =
                           rewrite_project_config(build_call.project_config, flags,
                                                  build_call.call.compiler_type)])
    /\ BuildCallFrame

NextBoost ==
    \/ BoostBootstrap
    \/ RewriteProjectConfig
    \/ RunCommand
    \/ FinishBuild

SpecBoost == InitBoost /\ [][NextBoost]_vars

\* ============================================================ properties

IsCommonGroup(dep) == dep = "zlib"
SanitizerBuildTypes == {BUILD_TYPE_ASAN, BUILD_TYPE_TSAN}

\* The events of the given kind, as (dependency, build type) pairs in order.
PairsInOrder(kind) ==
    LET F[i \in 0..Len(events)] ==
            IF i = 0 THEN <<>>
            ELSE IF events[i].ev = kind
                 THEN Append(F[i - 1], <<events[i].dep, events[i].bt>>)
                 ELSE F[i - 1]
    IN F[Len(events)]

\* The dependencies visited (perform_pre_build_steps) under bt, in order.
VisitsUnder(bt) ==
    LET F[i \in 0..Len(events)] ==
            IF i = 0 THEN <<>>
            ELSE IF events[i].ev = "pre_build" /\ events[i].bt = bt
                 THEN Append(F[i - 1], events[i].dep)
                 ELSE F[i - 1]
    IN F[Len(events)]

\* C1: every step taken for a dependency (pre-build, rebuild decision, flag
\* processing, build, stamp) is taken under COMMON if the dependency is of the
\* COMMON build group and under UNINSTRUMENTED, ASAN or TSAN if it is of the
\* INSTRUMENTED build group.
C1_BuildGroupGating ==
    \A i \in 1..Len(events) :
        IsCommonGroup(events[i].dep) <=> events[i].bt = BUILD_TYPE_COMMON

\* A run that built zlib under COMMON and boost under ASAN.
C1_Witness ==
    /\ <<"zlib", BUILD_TYPE_COMMON>> \in PairsOf({"build"}, {TRUE})
    /\ <<"boost", BUILD_TYPE_ASAN>> \in PairsOf({"build"}, {TRUE})

\* C2: the build types a run enters are in the order COMMON, UNINSTRUMENTED,
\* ASAN, TSAN, none entered twice, and the steps of the run follow that order:
\* no step of a build type comes after a step of a later build type, and every
\* step belongs to a build type that was entered.
C2_ConfigurationOrder ==
    /\ \A i, j \in 1..Len(executed) :
          i < j => BuildTypeIndex(executed[i]) < BuildTypeIndex(executed[j])
    /\ \A i, j \in 1..Len(events) :
          i < j => BuildTypeIndex(events[i].bt) <= BuildTypeIndex(events[j].bt)
    /\ \A i \in 1..Len(events) : events[i].bt \in Range(executed)
    /\ executed # <<>> => executed[1] = BUILD_TYPE_COMMON /\ executed[Len(executed)] = build_type

\* A completed run that entered all four build types and built under each.
C2_Witness ==
    /\ pc = "done"
    /\ executed = BUILD_TYPES
    /\ \A bt \in Range(BUILD_TYPES) : \E d \in DepNames : <<d, bt>> \in PairsOf({"build"}, {TRUE})

\* C3: ASAN or TSAN is entered, or any step is taken under them, only if the
\* platform is Linux, the compiler choice is clang only and --skip-sanitizers
\* was not given.
C3_SanitizerGating ==
    (\/ Range(executed) \cap SanitizerBuildTypes # {}
     \/ build_type \in SanitizerBuildTypes
     \/ \E i \in 1..Len(events) : events[i].bt \in SanitizerBuildTypes)
    => is_linux /\ use_only_clang /\ ~args.skip_sanitizers

\* A run that took a step under TSAN.
C3_Witness ==
    /\ BUILD_TYPE_ASAN \in Range(executed)
    /\ \E i \in 1..Len(events) : events[i].bt = BUILD_TYPE_TSAN

\* C4 as claimed: with --skip-sanitizers a completed run has entered exactly
\* COMMON and UNINSTRUMENTED, whatever build type was requested.
C4_AsClaimed ==
    (pc = "done" /\ args.skip_sanitizers)
    => executed = <<BUILD_TYPE_COMMON, BUILD_TYPE_UNINSTRUMENTED>>

\* C4, amended: with --skip-sanitizers a run never enters ASAN or TSAN, and a
\* completed run has entered COMMON then UNINSTRUMENTED when no build type or
\* UNINSTRUMENTED was requested, and COMMON alone when another one was.
C4_SkipSanitizers ==
    args.skip_sanitizers =>
        /\ Range(executed) \cap SanitizerBuildTypes = {}
        /\ pc = "done" =>
              executed = IF args.build_type \in {None, BUILD_TYPE_UNINSTRUMENTED}
                         THEN <<BUILD_TYPE_COMMON, BUILD_TYPE_UNINSTRUMENTED>>
                         ELSE <<BUILD_TYPE_COMMON>>

\* A run with --skip-sanitizers on a sanitizer-capable machine, completed after
\* building under UNINSTRUMENTED.
C4_Witness ==
    /\ args.skip_sanitizers /\ pc = "done"
    /\ is_linux /\ use_only_clang
    /\ args.build_type = None
    /\ <<"boost", BUILD_TYPE_UNINSTRUMENTED>> \in PairsOf({"build"}, {TRUE})

\* Whether a build type is in the list of build types of the run: COMMON and
\* UNINSTRUMENTED always, ASAN and TSAN on Linux with clang only and sanitizers
\* not skipped.
Eligible(bt) ==
    \/ bt \notin SanitizerBuildTypes
    \/ is_linux /\ use_only_clang /\ ~args.skip_sanitizers

\* C5: when a single build type T is requested, no build type other than COMMON
\* and T is entered and no step is taken under one; once the run is past its
\* initialization COMMON has been entered; and a completed run has entered T if
\* T is eligible.
C5_SingleBuildType ==
    args.build_type # None =>
        /\ Range(executed) \subseteq {BUILD_TYPE_COMMON, args.build_type}
        /\ build_type \in {None, BUILD_TYPE_COMMON, args.build_type}
        /\ \A i \in 1..Len(events) : events[i].bt \in {BUILD_TYPE_COMMON, args.build_type}
        /\ pc \in {"deps", "building", "run_loop", "done"} => BUILD_TYPE_COMMON \in Range(executed)
        /\ (pc = "done" /\ Eligible(args.build_type)) => args.build_type \in Range(executed)

\* A completed run for the requested build type ASAN, which skipped
\* UNINSTRUMENTED and TSAN and built under COMMON and ASAN.
C5_Witness ==
    /\ args.build_type = BUILD_TYPE_ASAN /\ pc = "done"
    /\ executed = <<BUILD_TYPE_COMMON, BUILD_TYPE_ASAN>>
    /\ \E i \in 1..Len(log) :
          log[i].text = "Skipping build type" /\ BUILD_TYPE_TSAN \in log[i].build_types
    /\ <<"boost", BUILD_TYPE_ASAN>> \in PairsOf({"build"}, {TRUE})

\* The setup of C6: build type UNINSTRUMENTED requested where the sanitizer
\* build types are in the list of the run.
C6_Setup ==
    /\ args.build_type = BUILD_TYPE_UNINSTRUMENTED
    /\ is_linux /\ use_only_clang /\ ~args.skip_sanitizers

LogNames(bts) == \E i \in 1..Len(log) : log[i].build_types \cap bts # {}

\* C6 as claimed: in that setup a completed run has entered exactly COMMON and
\* UNINSTRUMENTED, and at no point does a log entry name ASAN or TSAN, is the
\* builder's build type one of them, or is an output directory prepared for
\* one of them.
C6_AsClaimed ==
    C6_Setup =>
        /\ pc = "done" => executed = <<BUILD_TYPE_COMMON, BUILD_TYPE_UNINSTRUMENTED>>
        /\ ~LogNames(SanitizerBuildTypes)
        /\ build_type \notin SanitizerBuildTypes
        /\ out_dirs \cap SanitizerBuildTypes = {}

\* C6, amended: in that setup a completed run has entered exactly COMMON and
\* UNINSTRUMENTED, the builder's build type is never ASAN or TSAN and no step is
\* taken under them; but once the run has started its output directories are
\* prepared for all four build types, and a completed run has logged the full
\* list of build types with ASAN and TSAN in it and the skipping of each of them.
C6_UninstrumentedOnly ==
    C6_Setup =>
        /\ pc = "done" => executed = <<BUILD_TYPE_COMMON, BUILD_TYPE_UNINSTRUMENTED>>
        /\ build_type \notin SanitizerBuildTypes
        /\ \A i \in 1..Len(events) : events[i].bt \notin SanitizerBuildTypes
        /\ pc \in {"deps", "building", "run_loop", "done"} => Range(BUILD_TYPES) \subseteq out_dirs
        /\ pc = "done" =>
              /\ \E i \in 1..Len(log) :
                    /\ log[i].text = "Full list of build types"
                    /\ SanitizerBuildTypes \subseteq log[i].build_types
              /\ \A bt \in SanitizerBuildTypes : \E i \in 1..Len(log) :
                    /\ log[i].text = "Skipping build type"
                    /\ bt \in log[i].build_types

\* A completed run in the setup of C6 that built boost under UNINSTRUMENTED.
C6_Witness ==
    /\ C6_Setup /\ pc = "done"
    /\ <<"boost", BUILD_TYPE_UNINSTRUMENTED>> \in PairsOf({"build"}, {TRUE})
    /\ LogNames({BUILD_TYPE_TSAN})

\* The scenario of C7: the catalog [zlib (COMMON group), boost (INSTRUMENTED
\* group)], Linux, clang only (--single-compiler-type=clang) with LLVM 10 or
\* later, no build type requested, sanitizers not skipped, builds not limited to download and extraction, and no
\* stamp file but those this run has saved.
C7_Scenario ==
    /\ selected_dependencies = <<"zlib", "boost">>
    /\ is_linux /\ use_only_clang /\ single_compiler_type = "clang"
    /\ llvm_major_version # <<>> /\ llvm_major_version[1] >= 10
    /\ args.build_type = None /\ ~args.skip_sanitizers /\ ~args.download_extract_only
    /\ \A pair \in AllPairs :
          stamps[pair] # <<>> => pair \in PairsOf({"save_build_stamp"}, {TRUE})

\* C7: in that scenario a run that completes has entered COMMON, UNINSTRUMENTED,
\* ASAN and TSAN in this order and has built zlib once, under COMMON, and then
\* boost three times, under UNINSTRUMENTED, ASAN and TSAN in this order.
C7_CatalogScenario ==
    (C7_Scenario /\ pc = "done") =>
        /\ executed = BUILD_TYPES
        /\ PairsInOrder("build") = << <<"zlib", BUILD_TYPE_COMMON>>,
                                      <<"boost", BUILD_TYPE_UNINSTRUMENTED>>,
                                      <<"boost", BUILD_TYPE_ASAN>>,
                                      <<"boost", BUILD_TYPE_TSAN>> >>

\* A completed run of the scenario of C7, its four stamps saved.
C7_Witness ==
    /\ C7_Scenario /\ pc = "done"
    /\ Len(PairsInOrder("save_build_stamp")) = 4

\* The selected dependencies of the build group of bt, in catalog order.
ApplicableDependencies(bt) ==
    SelectSeq2(selected_dependencies,
               LAMBDA d : IsCommonGroup(d) <=> bt = BUILD_TYPE_COMMON)

\* C8: in a run that completes, under each build type entered the dependencies
\* visited are exactly the selected dependencies of the matching build group,
\* each once and in catalog order, whatever was built and whatever was
\* skipped; under a build type not entered none is visited.
C8_VisitOrder ==
    pc = "done" =>
        \A bt \in Range(BUILD_TYPES) :
            VisitsUnder(bt) = IF bt \in Range(executed)
                              THEN ApplicableDependencies(bt) ELSE <<>>

\* A completed run that, under UNINSTRUMENTED, skipped the build of one
\* dependency, then built a later one, with three dependencies visited.
C8_Witness ==
    /\ pc = "done"
    /\ Len(VisitsUnder(BUILD_TYPE_UNINSTRUMENTED)) = 3
    /\ \E i, j \in 1..Len(events) :
          /\ i < j
          /\ events[i].bt = BUILD_TYPE_UNINSTRUMENTED /\ events[j].bt = BUILD_TYPE_UNINSTRUMENTED
          /\ events[i].ev = "pre_build" /\ events[j].ev = "build"
          /\ <<events[i].dep, BUILD_TYPE_UNINSTRUMENTED>> \notin PairsOf({"build"}, {TRUE})

\* This run follows a run that completed, and is past its command line.
SecondRun == run_no >= 2 /\ prev_run.ended = "done" /\ pc # "start"

C10_Tracks(dep, f) ==
    f \in {<<MAIN_PY>>, <<BUILD_SH>>} \/ f = RecipeFile(module_name_final(dep))

\* Files whose content is not what the previous run found.
ContentChanged == {f \in Files : run_git.work[f] # prev_run.git.work[f]}

\* Files that differ in any way (content, staging, history) from what the
\* previous run found.
Touched ==
    {f \in Files : \/ run_git.work[f] # prev_run.git.work[f]
                   \/ run_git.index[f] # prev_run.git.index[f]
                   \/ run_git.head[f] # prev_run.git.head[f]
                   \/ run_git.last_commit[f] # prev_run.git.last_commit[f]}

\* C10: in a run that follows a completed run, a dependency one of whose tracked
\* files has changed content has another build stamp than in the previous run,
\* every rebuild decision about it is "rebuild", and a completed run that builds
\* at all has built it under every build type entered for its group; a
\* dependency none of whose tracked files was touched has the same build stamp,
\* and every pair of it that the previous run built or found up to date is
\* found up to date.
C10_ChangeSensitivity ==
    SecondRun =>
        \A dep \in DepNames :
            IF \E f \in ContentChanged : C10_Tracks(dep, f)
            THEN /\ BuildStampOf(run_git, dep) # BuildStampOf(prev_run.git, dep)
                 /\ \A bt \in Range(BUILD_TYPES) :
                       <<dep, bt>> \notin PairsOf({"should_rebuild"}, {FALSE})
                 /\ (pc = "done" /\ ~args.download_extract_only /\ dep_should_build[dep]) =>
                       \A bt \in Range(executed) :
                           dep \in Range(ApplicableDependencies(bt))
                           => <<dep, bt>> \in PairsOf({"save_build_stamp"}, {TRUE})
            ELSE (\A f \in Touched : ~C10_Tracks(dep, f)) =>
                 /\ BuildStampOf(run_git, dep) = BuildStampOf(prev_run.git, dep)
                 /\ \A bt \in Range(BUILD_TYPES) :
                       <<dep, bt>> \in prev_run.current
                       => <<dep, bt>> \notin PairsOf({"should_rebuild"}, {TRUE})

\* A completed second run after the recipe of boost alone changed content: boost
\* was rebuilt under ASAN and zlib, built by the previous run, was found up to
\* date.
C10_Witness ==
    /\ SecondRun /\ pc = "done"
    /\ ContentChanged = {RecipeFile("boost")}
    /\ <<"boost", BUILD_TYPE_ASAN>> \in PairsOf({"save_build_stamp"}, {TRUE})
    /\ <<"zlib", BUILD_TYPE_COMMON>> \in prev_run.built
    /\ <<"zlib", BUILD_TYPE_COMMON>> \in PairsOf({"should_rebuild"}, {FALSE})

\* The pair whose rebuild decision was taken, and the decision.
DecidedDep == events[1].dep
UpToDate == events[1].val = FALSE
StampMatches ==
    stamps[<<DecidedDep, build_type>>] = <<BuildStampOf(git, DecidedDep)>>
SourceDirExists == DecidedDep \in src_dirs

\* C11 as claimed: a pair is found up to date if and only if its stamp file
\* exists and holds the stamp just computed and the source directory of the
\* dependency exists, whether the dependency declares a source directory name
\* or not.
C11_AsClaimed ==
    pc = "decided" => (UpToDate <=> (StampMatches /\ SourceDirExists))

\* C11, amended: a pair is found up to date if and only if its stamp file exists
\* and holds the stamp just computed and, when the dependency declares a source
\* directory name, its source directory exists; for a dependency that declares
\* none, the source directory is not looked at. A missing stamp file always
\* forces a rebuild.
C11_UpToDate ==
    pc = "decided" =>
        /\ UpToDate <=> (StampMatches /\ (dir_name(DecidedDep) # <<>> => SourceDirExists))
        /\ stamps[<<DecidedDep, build_type>>] = <<>> => ~UpToDate

\* A dependency that declares no source directory name, its stamp matching and
\* its source directory missing, was found up to date.
C11_Witness ==
    /\ pc = "decided" /\ UpToDate
    /\ dir_name(DecidedDep) = <<>> /\ ~SourceDirExists

\* The steps at which a run may fail.
FailureSteps == {"pre_build", "init_flags", "prepare_failed", "build_failed"}

\* C12: a step changes the stamp files only by writing the stamp of the pair
\* whose build operation has just returned without error, right after that
\* build; a step that ends in an abort (download, flag derivation, preparation
\* of the build directory or build failed) leaves every stamp file as it was;
\* and once a run has aborted, the failed step is the last step it has taken
\* and nothing more can happen in it.
C12_StampOnlyAfterBuild ==
    /\ [][/\ pc' = "aborted" => stamps' = stamps
          /\ stamps' # stamps =>
                LET dep == selected_dependencies[dep_idx]
                    saved == Event("save_build_stamp", dep, build_type, TRUE)
                IN /\ pc = "building" /\ pc' = "deps"
                   /\ events[Len(events)] = Event("build", dep, build_type, TRUE)
                   /\ events' = Append(events, saved)
                   /\ \A p \in AllPairs \ {<<dep, build_type>>} : stamps'[p] = stamps[p]
         ]_vars
    /\ [](pc = "aborted" =>
            /\ ~ENABLED NextRun
            /\ events # <<>>
            /\ events[Len(events)].val = FALSE
            /\ events[Len(events)].ev \in FailureSteps
            /\ \A i \in 1..(Len(events) - 1) :
                  ~(events[i].ev \in FailureSteps /\ events[i].val = FALSE))

\* A run aborted by the failure of the build of boost under ASAN, after it had
\* built and stamped boost under UNINSTRUMENTED: boost has no stamp for ASAN.
C12_Witness ==
    /\ pc = "aborted"
    /\ events[Len(events)] = Event("build_failed", "boost", BUILD_TYPE_ASAN, FALSE)
    /\ <<"boost", BUILD_TYPE_UNINSTRUMENTED>> \in PairsOf({"save_build_stamp"}, {TRUE})
    /\ stamps[<<"boost", BUILD_TYPE_ASAN>>] = <<>>

\* The re-run of C13: the second run, completed, of a build that is not limited
\* to download and extraction, after a first run that aborted.
C13_ReRunDone ==
    /\ run_no = 2 /\ prev_run.ended = "aborted" /\ pc = "done"
    /\ ~args.download_extract_only

\* The pairs this run had to deal with: the selected dependencies of the group
\* of each build type entered.
ApplicablePairs ==
    {p \in AllPairs : p[2] \in Range(executed) /\ p[1] \in Range(ApplicableDependencies(p[2]))}

BuiltInOrder == PairsInOrder("build")

TouchedFor(dep) == {f \in Touched : C10_Tracks(dep, f)}

C14_AsClaimed ==
    \A p \in PairsOf({"save_build_stamp"}, {TRUE}) : stamps[p] = built_on[p]

\* The positions of the init_flags steps among this run's events.
InitFlagsSteps == {i \in 1..Len(events) : events[i].ev = "init_flags"}

\* The latest init_flags step of this run.
LastInitFlags ==
    events[CHOOSE i \in InitFlagsSteps : \A j \in InitFlagsSteps : j <= i]

\* The flags are those of a completed derivation.
FlagsInEffect == InitFlagsSteps # {} /\ LastInitFlags.val

\* The flag lists a process that had processed nothing before would have in
\* effect for dep under bt.
FreshFlags(dep, bt) ==
    FlagLists(build_dependency_flags(FlagState(NoFlags, {}), dep, bt, set_order[bt], TRUE).b)

\* C15: the preprocessor, compiler, C, C++, linker, executable-only linker and
\* library-name lists in effect for dependency B under configuration C are
\* those a process derives for (platform, compiler, C, B) from empty lists: no
\* flag added while an earlier dependency was processed is among them.
C15_OrderIndependence ==
    FlagsInEffect => flags = FreshFlags(LastInitFlags.dep, LastInitFlags.bt)

\* Under ASAN with Clang 10 the flags are boost's, after those of libc++abi,
\* which held -fno-sanitize=vptr, had been in effect in the same run.
C15_Witness ==
    /\ FlagsInEffect
    /\ LastInitFlags.dep = "boost" /\ LastInitFlags.bt = BUILD_TYPE_ASAN
    /\ \E i \in InitFlagsSteps :
          events[i].dep = "llvm1x_libcxxabi" /\ events[i].bt = BUILD_TYPE_ASAN /\ events[i].val
    /\ "-fno-sanitize=vptr" \in
          Range(FreshFlags("llvm1x_libcxxabi", BUILD_TYPE_ASAN).compiler_flags)
    /\ "-fno-sanitize=vptr" \notin Range(flags.compiler_flags)

\* A second process has derived the flags that the process before it had
\* derived, for the same platform, compiler, build type and dependency.
DerivedAgain == run_no >= 2 /\ pc = "flags_done" /\ prev_run.ended = "flags_done"

\* C16 as claimed: two derivations for the same platform, compiler,
\* configuration and dependency give identical ordered lists, the include-path
\* and library-path entries of the COMMON and current-configuration install
\* directories in the same order.
C16_AsClaimed == DerivedAgain => flags = prev_run.flags

\* base opens list, and extra closes it, the two not overlapping.
OpensAndCloses(base, extra, list) ==
    /\ Len(list) >= Len(base) + Len(extra)
    /\ SubSeq(list, 1, Len(base)) = base
    /\ SubSeq(list, Len(list) - Len(extra) + 1, Len(list)) = extra

\* The dependency whose flags a process of the flag derivation has derived.
DerivedDep == selected_dependencies[1]

\* C17: once the flags of a dependency are derived, each of its effective C,
\* C++, linker, executable-linker and preprocessor lists opens with the base
\* list of that category, in its order, and closes with the additional flags
\* the dependency gives for that category (none for the preprocessor, for which
\* the dependency is not asked).
C17_AppendOnly ==
    pc = "flags_done" =>
        LET dep == DerivedDep
            extra == dep_additional_flags[dep]
        IN /\ OpensAndCloses(flags.c_flags, extra.c, get_effective_c_flags(flags, dep))
           /\ OpensAndCloses(flags.cxx_flags, extra.cxx, get_effective_cxx_flags(flags, dep))
           /\ OpensAndCloses(flags.ld_flags, extra.ld, get_effective_ld_flags(flags, dep))
           /\ OpensAndCloses(flags.ld_flags, extra.ld,
                             get_effective_executable_ld_flags(flags, dep))
           /\ OpensAndCloses(flags.preprocessor_flags, <<>>,
                             get_effective_preprocessor_flags(flags, dep))

\* The flags of boost are derived under TSAN with Clang 7, boost giving one
\* additional flag of each category: its effective C++ list opens with the
\* base C++ list and closes with -std=c++17, and its effective
\* executable-linker list holds -fsanitize=thread before -lextra.
C17_Witness ==
    /\ pc = "flags_done"
    /\ DerivedDep = "boost" /\ build_type = BUILD_TYPE_TSAN
    /\ dep_additional_flags["boost"].cxx = <<"-std=c++17">>
    /\ Head(get_effective_cxx_flags(flags, "boost")) = "-Wno-error=unused-command-line-argument"
    /\ "-std=c++14" \in Range(flags.cxx_flags)
    /\ LET l == get_effective_executable_ld_flags(flags, "boost") IN
       /\ l[Len(l)] = "-lextra"
       /\ l[Len(l) - 1] = "-fsanitize=thread"

\* The directories the flag derivation names.
KnownPaths ==
    {InstalledDir(c, sub) : c \in Range(BUILD_TYPES), sub \in {"include", "lib"}}
    \cup {get_libcxx_dirs(c)[i] : c \in Range(BUILD_TYPES), i \in 1..2}
    \cup {linuxbrew_lib_dir, compiler_rt_lib_dir}

\* The flag state of the Builder process.
CurrentFlagState == FlagState(flags, additional_allowed_shared_lib_paths)

\* The paths the derivation has passed to add_include_path, and those it has
\* passed to add_lib_dir_and_rpath or prepend_lib_dir_and_rpath.
IncludePathsAdded == {p \in KnownPaths : ("-I" \o p) \in Range(flags.preprocessor_flags)}
LibDirsAdded ==
    {p \in KnownPaths : /\ ("-L" \o p) \in Range(flags.ld_flags)
                        /\ get_rpath_flag(p) \in Range(flags.ld_flags)}

\* C18 as claimed: add_include_path, add_lib_dir_and_rpath and
\* prepend_lib_dir_and_rpath each add the path they are given to
\* additional_allowed_shared_lib_paths.
C18_AsClaimed ==
    /\ IncludePathsAdded \cup LibDirsAdded \subseteq additional_allowed_shared_lib_paths
    /\ \A p \in KnownPaths :
          /\ p \in add_include_path(CurrentFlagState, p).additional_allowed_shared_lib_paths
          /\ p \in add_lib_dir_and_rpath(CurrentFlagState, p).additional_allowed_shared_lib_paths
          /\ p \in prepend_lib_dir_and_rpath(CurrentFlagState, p)
                      .additional_allowed_shared_lib_paths

\* C18: add_lib_dir_and_rpath and prepend_lib_dir_and_rpath add the path they
\* are given to additional_allowed_shared_lib_paths, next to their -L and rpath
\* flags at the end (the start) of the linker list; add_include_path appends
\* its -I flag to the preprocessor and compiler lists and leaves the set of
\* allowed paths as it was.
C18_AllowedPaths ==
    /\ LibDirsAdded \subseteq additional_allowed_shared_lib_paths
    /\ IncludePathsAdded \cap additional_allowed_shared_lib_paths = {}
    /\ \A p \in KnownPaths :
          LET b == CurrentFlagState
              allowed == additional_allowed_shared_lib_paths
              i == add_include_path(b, p)
              a == add_lib_dir_and_rpath(b, p)
              q == prepend_lib_dir_and_rpath(b, p)
          IN /\ i.additional_allowed_shared_lib_paths = allowed
             /\ i.preprocessor_flags = Append(flags.preprocessor_flags, "-I" \o p)
             /\ i.compiler_flags = Append(flags.compiler_flags, "-I" \o p)
             /\ i.ld_flags = flags.ld_flags
             /\ a.additional_allowed_shared_lib_paths = allowed \cup {p}
             /\ a.ld_flags = flags.ld_flags \o <<"-L" \o p, get_rpath_flag(p)>>
             /\ q.additional_allowed_shared_lib_paths = allowed \cup {p}
             /\ q.ld_flags = <<get_rpath_flag(p), "-L" \o p>> \o flags.ld_flags

\* The flags of boost are derived under ASAN with Clang 10: the lib directories
\* of common and asan were given to add_lib_dir_and_rpath and that of libc++ to
\* prepend_lib_dir_and_rpath, and are allowed; the include directories of
\* common and asan were given to add_include_path, and are not.
C18_Witness ==
    /\ pc = "flags_done"
    /\ DerivedDep = "boost" /\ build_type = BUILD_TYPE_ASAN /\ is_clang1x
    /\ {InstalledDir(BUILD_TYPE_COMMON, "lib"), InstalledDir(BUILD_TYPE_ASAN, "lib"),
        get_libcxx_dirs(BUILD_TYPE_ASAN)[2]} \subseteq LibDirsAdded
    /\ get_rpath_flag(get_libcxx_dirs(BUILD_TYPE_ASAN)[2]) = Head(flags.ld_flags)
    /\ IncludePathsAdded =
          {InstalledDir(BUILD_TYPE_COMMON, "include"), InstalledDir(BUILD_TYPE_ASAN, "include")}
    /\ IncludePathsAdded \cap additional_allowed_shared_lib_paths = {}

\* The paths the flag steps of build_dependency add to the allowed paths for
\* dep under bt (the same whatever the order of the install directories).
AllowedPathsFor(dep, bt) ==
    build_dependency_flags(FlagState(NoFlags, {}), dep, bt, "common_first", TRUE)
        .b.additional_allowed_shared_lib_paths

\* The pairs this run went through without building them.
SkippedPairs == ApplicablePairs \ PairsOf({"build"}, {TRUE})

\* C19: when a run has completed, every applicable pair, rebuilt or skipped,
\* has had its flags derived, and the lib directory of its configuration and
\* that of COMMON are among the allowed paths; the set of allowed paths is the
\* one the command line, the machine and the selection determine, whatever
\* stamps the run found.
C19_AllowedPathsWhateverStamps ==
    pc = "done" =>
        /\ ApplicablePairs = PairsOf({"init_flags"}, {TRUE})
        /\ \A p \in ApplicablePairs :
              {InstalledDir(p[2], "lib"), InstalledDir(BUILD_TYPE_COMMON, "lib")}
                  \subseteq additional_allowed_shared_lib_paths
        /\ additional_allowed_shared_lib_paths =
              UNION {AllowedPathsFor(p[1], p[2]) : p \in ApplicablePairs}

\* A completed run that found the stamps of an earlier run, skipped every pair
\* of the uninstrumented configuration and built none: the lib directory of the
\* uninstrumented configuration is allowed all the same.
C19_Witness ==
    /\ pc = "done"
    /\ ~args.download_extract_only
    /\ <<"boost", BUILD_TYPE_UNINSTRUMENTED>> \in SkippedPairs
    /\ PairsOf({"build"}, {TRUE}) = {}
    /\ PairsOf({"should_rebuild"}, {FALSE}) = ApplicablePairs
    /\ InstalledDir(BUILD_TYPE_UNINSTRUMENTED, "lib") \in additional_allowed_shared_lib_paths

\* The command line gives both dependencies to build and dependencies to skip.
BothListsGiven == args.dependencies # <<>> /\ args.skip # <<>>

\* C20: a command line with both a list of dependencies and a skip list is
\* rejected by the validation of the arguments: the process ends there,
\* nothing selected, no output directory prepared, no dependency downloaded, no
\* flags derived, nothing built and no stamp written.
C20_BothListsRejected ==
    BothListsGiven =>
        /\ pc \in {"start", "rejected"}
        /\ selected_dependencies = <<>> /\ executed = <<>>
        /\ events = <<>> /\ out_dirs = {}
        /\ flags = NoFlags /\ additional_allowed_shared_lib_paths = {}
        /\ failures = 0
        /\ \E st \in StampsBefore : stamps = st

\* The run for "boost --skip zlib" has been rejected.
C20_Witness ==
    /\ pc = "rejected"
    /\ args.dependencies = <<"boost">> /\ args.skip = <<"zlib">>
    /\ ~is_macos

\* The names given on the command line that the catalog does not have.
UnknownNames == (Range(args.dependencies) \cup Range(args.skip)) \ DepNames

\* No dependency has been processed by this run: nothing selected, no build
\* type entered, no download, no flags derived, nothing built, no stamp written.
NothingProcessed ==
    /\ selected_dependencies = <<>> /\ executed = <<>>
    /\ events = <<>> /\ out_dirs = {}
    /\ flags = NoFlags /\ additional_allowed_shared_lib_paths = {}
    /\ \E st \in StampsBefore : stamps = st

\* C21: a command line that names, in its include list or in its skip list, a
\* dependency the catalog does not have never gets past the selection: the run
\* is rejected there, and no dependency is processed.
C21_UnknownNameRejected ==
    UnknownNames # {} =>
        /\ pc \in {"start", "parsed", "rejected"}
        /\ NothingProcessed

\* The run that was asked to skip boost and a name the catalog does not have
\* passed the validation of the arguments and was rejected by the selection.
C21_Witness ==
    /\ pc = "rejected"
    /\ args.dependencies = <<>> /\ args.skip = <<"boost", "nosuch">>
    /\ ~ParseArgsFails

\* The position of a name in the catalog.
CatalogIndex(d) == CHOOSE i \in 1..Len(dependencies) : dependencies[i] = d

\* The names the command line selects.
SelectedNames ==
    IF args.dependencies # <<>> THEN Range(args.dependencies)
    ELSE DepNames \ Range(args.skip)

\* C22: once the selection is made, the selected dependencies are catalog
\* entries in catalog order, each once: those named by the include list if
\* there is one (however it orders or repeats them), else those the skip list
\* does not name, else all.
C22_CatalogOrder ==
    pc = "initialized" =>
        /\ Range(selected_dependencies) = SelectedNames
        /\ Range(selected_dependencies) \subseteq DepNames
        /\ \A i, j \in 1..Len(selected_dependencies) :
              i < j => CatalogIndex(selected_dependencies[i])
                          < CatalogIndex(selected_dependencies[j])

\* The include list "boost zlib" has selected zlib before boost.
C22_Witness ==
    /\ pc = "initialized"
    /\ args.dependencies = <<"boost", "zlib">>
    /\ selected_dependencies = <<"zlib", "boost">>

\* The platform is neither Linux nor macOS: init_compiler_independent_flags
\* calls fatal("Unsupported platform").
UnsupportedPlatform == ~is_linux /\ ~is_macos

\* Clang on Linux of a version init_flags has no setup for.
UnsupportedCompilerVersion ==
    /\ is_linux /\ building_with_clang(build_type)
    /\ ~is_clang1x
    /\ llvm_major_version # <<7>> /\ single_compiler_type # None

\* The run has ended on the error that reports the unsupported platform or
\* compiler version.
UnsupportedReported ==
    /\ pc = "aborted" /\ events # <<>>
    /\ events[Len(events)].ev = "init_flags" /\ ~events[Len(events)].val
    /\ UnsupportedPlatform \/ UnsupportedCompilerVersion

\* C23 (as the specification states it): when the error for an unsupported
\* platform or compiler version is raised, nothing has been downloaded, no
\* license record appended, no flag list or allowed path changed, no stamp written.
C23_AsClaimed ==
    UnsupportedReported =>
        /\ src_dirs = {}
        /\ fossa_modules = <<>>
        /\ flags = NoFlags
        /\ additional_allowed_shared_lib_paths = {}
        /\ \A i \in 1..Len(events) : events[i].ev # "save_build_stamp"

\* C24 (as the specification states it): whenever no build call is under way,
\* every environment variable holds what it held before the calls made so far,
\* that is what the process inherited: the variables the call exposes and
\* YB_REMOTE_COMPILATION alike.
C24_AsClaimed ==
    pc # "building" => environ = InheritedEnviron

\* The steps of a build and the writing of a stamp.
BuildSteps == {"build", "build_failed", "prepare_failed", "save_build_stamp"}

\* C25: a run asked to download and extract only builds nothing and writes no
\* stamp at any point, and when it completes the pre-build steps and the flag
\* derivation have happened for every applicable (dependency, configuration)
\* pair.
C25_DownloadExtractOnly ==
    /\ [](args.download_extract_only =>
            /\ pc # "building"
            /\ \A i \in 1..Len(events) : events[i].ev \notin BuildSteps
            /\ \A p \in AllPairs : built_on[p] = <<>>
            /\ pc = "done" =>
                  /\ PairsOf({"pre_build"}, {TRUE}) = ApplicablePairs
                  /\ PairsOf({"init_flags"}, {TRUE}) = ApplicablePairs)
    /\ [][args.download_extract_only => stamps' = stamps]_vars

\* A run asked to download and extract only has completed, having found every
\* dependency in need of a rebuild: boost was downloaded and its flags derived
\* under the uninstrumented configuration, and nothing was built.
C25_Witness ==
    /\ pc = "done"
    /\ args.download_extract_only
    /\ PairsOf({"should_rebuild"}, {TRUE}) = ApplicablePairs
    /\ \A d \in DepNames : dep_should_build[d]
    /\ <<"boost", BUILD_TYPE_UNINSTRUMENTED>> \in PairsOf({"init_flags"}, {TRUE})
    /\ PairsOf({"build"}, {TRUE}) = {}

\* The flags that turn a sanitizer on, as the flag catalog lists them.
AsanFlagNames == {"-fsanitize=address", "-fsanitize=undefined", "-DADDRESS_SANITIZER"}
TsanFlagNames == {"-fsanitize=thread", "-DTHREAD_SANITIZER"}

\* The flags of the base lists that go to the C and C++ compilers.
BaseCompilerFlags ==
    Range(flags.preprocessor_flags) \cup Range(flags.compiler_flags)
        \cup Range(flags.c_flags) \cup Range(flags.cxx_flags)

\* C26: once the flags of a dependency are derived, its effective C flags and
\* its effective C++ flags hold the three ASAN flags under ASAN and the two
\* TSAN flags under TSAN; under COMMON and UNINSTRUMENTED the base lists hold
\* none of the five.
C26_SanitizerFlags ==
    pc = "flags_done" =>
        LET c == Range(get_effective_c_flags(flags, DerivedDep))
            cxx == Range(get_effective_cxx_flags(flags, DerivedDep))
        IN /\ build_type = BUILD_TYPE_ASAN =>
                 AsanFlagNames \subseteq c /\ AsanFlagNames \subseteq cxx
           /\ build_type = BUILD_TYPE_TSAN =>
                 TsanFlagNames \subseteq c /\ TsanFlagNames \subseteq cxx
           /\ build_type \in {BUILD_TYPE_COMMON, BUILD_TYPE_UNINSTRUMENTED} =>
                 BaseCompilerFlags \cap (AsanFlagNames \cup TsanFlagNames) = {}

\* The flags of boost have been derived under ASAN with Clang 10 on Linux.
C26_Witness ==
    /\ pc = "flags_done"
    /\ is_linux /\ is_clang1x
    /\ DerivedDep = "boost" /\ build_type = BUILD_TYPE_ASAN
    /\ "-fsanitize=undefined" \in Range(get_effective_c_flags(flags, DerivedDep))

\* The records the visits made so far call for: one for each pre-build step
\* of a dependency that has an archive name, in the order of the visits.
RecordsOfVisits ==
    LET F[i \in 0..Len(events)] ==
            IF i = 0 THEN <<>>
            ELSE IF /\ events[i].ev = "pre_build" /\ events[i].val
                    /\ dep_archive_name[events[i].dep] # <<>>
                 THEN Append(F[i - 1], [name |-> events[i].dep,
                                        target |-> dep_archive_name[events[i].dep]])
                 ELSE F[i - 1]
    IN F[Len(events)]

\* C27: the license manifest is written once in a run, by the step that ends a
\* run in which every configuration was processed without error; a run that is
\* rejected or aborted writes none. What is written is one record for each
\* visit of a (dependency, configuration) pair whose dependency has an archive
\* name, in the order of the visits.
C27_ManifestOnce ==
    /\ [](/\ pc # "done" => manifest = NoManifest
          /\ pc = "done" =>
                /\ manifest.written = 1
                /\ manifest.content = RecordsOfVisits
                /\ PairsOf({"pre_build"}, {TRUE}) = ApplicablePairs
                /\ \A i \in 1..Len(events) : events[i].val \/ events[i].ev = "should_rebuild")
    /\ [][manifest' # manifest => pc = "run_loop" /\ pc' = "done" /\ build_types = <<>>]_vars

\* A run of both sanitizer configurations has completed and written the
\* manifest: boost is in it three times, libc++abi, which has no archive, is not.
C27_Witness ==
    /\ pc = "done"
    /\ manifest.written = 1
    /\ Len(SelectSeq2(manifest.content, LAMBDA r : r.name = "boost")) = 3
    /\ <<"llvm1x_libcxxabi", BUILD_TYPE_ASAN>> \in PairsOf({"pre_build"}, {TRUE})
    /\ \A i \in 1..Len(manifest.content) : manifest.content[i].name # "llvm1x_libcxxabi"

\* The steps at which a rebuild decision was taken.
DecisionSteps == {i \in 1..Len(events) : events[i].ev = "should_rebuild"}

\* Step j is a step of the pair that step i is about.
SamePair(i, j) == events[j].dep = events[i].dep /\ events[j].bt = events[i].bt

\* C28 (as the specification states it): the flags of a pair are derived
\* before the stored stamp and should_build are consulted for it, so that no
\* rebuild decision is taken with the flag lists of the previous dependency or
\* with uninitialised ones.
C28_AsClaimed ==
    \A i \in DecisionSteps :
        \E j \in 1..(i - 1) : events[j].ev = "init_flags" /\ SamePair(i, j)

\* C28 (amended): for one pair the steps are the pre-build steps, then the
\* consultation of should_build and of the stored stamp, then the derivation of
\* the flags, which follows whatever was decided: when the decision is taken the
\* flags of the pair have not been derived yet.
C28_StepOrder ==
    \A i \in DecisionSteps :
        /\ i > 1 /\ events[i - 1].ev = "pre_build" /\ events[i - 1].val /\ SamePair(i, i - 1)
        /\ i < Len(events) /\ events[i + 1].ev = "init_flags" /\ SamePair(i, i + 1)
        /\ \A j \in 1..(i - 1) : ~(events[j].ev = "init_flags" /\ SamePair(i, j))

\* The decision not to rebuild boost under the uninstrumented configuration
\* was taken right after the flags of libc++ had been derived, and the flags of
\* boost were derived after it.
C28_Witness ==
    \E i \in DecisionSteps :
        /\ i > 2 /\ i < Len(events)
        /\ events[i].dep = "boost" /\ events[i].bt = BUILD_TYPE_UNINSTRUMENTED
        /\ ~events[i].val
        /\ events[i - 2].ev = "init_flags" /\ events[i - 2].dep = "llvm1x_libcxx"
        /\ events[i + 1].ev = "init_flags" /\ events[i + 1].val

\* The flags derived are those of the setup for the Clang 7 built here: Clang
\* on Linux, of LLVM 7 or with no single compiler type asked for.
LegacyClangPath ==
    /\ pc = "flags_done"
    /\ is_linux /\ building_with_clang(build_type)
    /\ ~is_clang1x
    /\ llvm_major_version = <<7>> \/ single_compiler_type = None

\* list begins with the entries of front.
BeginsWith(list, front) ==
    Len(list) >= Len(front) /\ SubSeq(list, 1, Len(front)) = front

\* C29: on the legacy Clang path the derived C++ flags begin with
\* -Wno-error=unused-command-line-argument, -stdlib=libc++, -isystem, the
\* include directory of the bundled libc++ and -nostdinc++, and the derived
\* linker flags begin with the rpath flag and the -L flag of the lib directory
\* of the bundled libc++, the platform's own entries coming after them.
C29_LibcxxAtFront ==
    LegacyClangPath =>
        LET libcxx == InstalledDir(build_type, "libcxx") IN
        /\ BeginsWith(flags.cxx_flags,
                      <<"-Wno-error=unused-command-line-argument", "-stdlib=libc++",
                        "-isystem", libcxx \o "/include/c++/v1", "-nostdinc++">>)
        /\ BeginsWith(flags.ld_flags,
                      <<get_rpath_flag(libcxx \o "/lib"), "-L" \o libcxx \o "/lib">>)
        /\ \E i \in 3..Len(flags.ld_flags) :
              flags.ld_flags[i] = get_rpath_flag(PLACEHOLDER_RPATH)

\* The flags of boost have been derived under ASAN with no single compiler
\* type asked for, on Linux.
C29_Witness ==
    /\ LegacyClangPath
    /\ single_compiler_type = None
    /\ DerivedDep = "boost" /\ build_type = BUILD_TYPE_ASAN
    /\ Len(flags.cxx_flags) > 5 /\ Len(flags.ld_flags) > 2

\* C30: on the legacy Clang path under TSAN, -fsanitize=thread is among the
\* effective linker flags of executables and is not among the linker flags
\* that shared libraries get: the base ld_flags and the effective linker flags,
\* which are what LDFLAGS and CMAKE_SHARED_LINKER_FLAGS are joined from. For
\* every other derivation the executable-only list is empty.
C30_TsanExecutablesOnly ==
    pc = "flags_done" =>
        LET shared == get_effective_ld_flags(flags, DerivedDep)
            executable == get_effective_executable_ld_flags(flags, DerivedDep)
        IN IF LegacyClangPath /\ build_type = BUILD_TYPE_TSAN
           THEN /\ "-fsanitize=thread" \in Range(executable)
                /\ "-fsanitize=thread" \notin Range(flags.ld_flags)
                /\ "-fsanitize=thread" \notin Range(shared)
                /\ BuildEnvVars(flags, DerivedDep, build_type)["LDFLAGS"] = Join(shared)
           ELSE /\ flags.executable_only_ld_flags = <<>>
                /\ executable = shared

\* The flags of boost have been derived under TSAN with the Clang of LLVM 7.
C30_Witness ==
    /\ LegacyClangPath
    /\ llvm_major_version = <<7>>
    /\ DerivedDep = "boost" /\ build_type = BUILD_TYPE_TSAN
    /\ flags.executable_only_ld_flags = <<"-fsanitize=thread">>

\* The flags derived are those of the setup for Clang 10 and newer: Clang on
\* Linux, asked for as the single compiler type, of LLVM 10 or newer.
ModernClangPath ==
    /\ pc = "flags_done"
    /\ is_linux /\ building_with_clang(build_type)
    /\ is_clang1x

\* The dependencies whose names end with _libcxxabi, and with _libcxx.
NamedLibcxxabi == {"llvm1x_libcxxabi"}
NamedLibcxx == {"llvm1x_libcxx"}

\* C31 (as the specification states it): on the modern Clang path under ASAN
\* -shared-libasan is among the compiler flags of every dependency, and
\* -fno-sanitize=vptr is among those of libc++abi and of libc++, and of no other.
C31_AsClaimed ==
    ModernClangPath /\ build_type = BUILD_TYPE_ASAN =>
        /\ "-shared-libasan" \in Range(flags.compiler_flags)
        /\ "-fno-sanitize=vptr" \in Range(flags.compiler_flags)
              <=> DerivedDep \in NamedLibcxxabi \cup NamedLibcxx

\* C31 (amended): on the modern Clang path under ASAN -shared-libasan is among
\* the compiler flags of every dependency, and -fno-sanitize=vptr is among
\* those of the dependency whose name ends with _libcxxabi and of no other,
\* libc++ included. No other derivation gives either flag.
C31_VptrForLibcxxabiOnly ==
    pc = "flags_done" =>
        IF ModernClangPath /\ build_type = BUILD_TYPE_ASAN
        THEN /\ "-shared-libasan" \in Range(flags.compiler_flags)
             /\ "-fno-sanitize=vptr" \in Range(flags.compiler_flags)
                   <=> DerivedDep \in NamedLibcxxabi
        ELSE {"-shared-libasan", "-fno-sanitize=vptr"} \cap Range(flags.compiler_flags) = {}

\* The flags of libc++ have been derived under ASAN with Clang 10: they hold
\* -shared-libasan and not -fno-sanitize=vptr.
C31_Witness ==
    /\ ModernClangPath /\ build_type = BUILD_TYPE_ASAN
    /\ DerivedDep \in NamedLibcxx
    /\ "-shared-libasan" \in Range(flags.compiler_flags)
    /\ "-fno-sanitize=vptr" \notin Range(flags.compiler_flags)

\* The run derives its flags with the setup for Clang 10 and newer, and the
\* compiler's runtime directory lacks the UBSAN library.
UbsanLibMissing == is_linux /\ is_clang1x /\ ~ubsan_lib_exists

\* The steps of the kinds given that the run made under the build types given.
StepsUnder(kinds, bts) ==
    {i \in 1..Len(events) : events[i].ev \in kinds /\ events[i].bt \in bts}

\* C32 (as the specification states it): on the modern Clang path, when the
\* UBSAN library is missing, the flag derivation of every pair of a
\* configuration other than COMMON raises: none completes, and nothing is built
\* and no stamp written under those configurations.
C32_AsClaimed ==
    UbsanLibMissing =>
        LET instrumented == Range(BUILD_TYPES) \ {BUILD_TYPE_COMMON} IN
        /\ \A i \in StepsUnder({"init_flags"}, instrumented) : ~events[i].val
        /\ StepsUnder({"build", "save_build_stamp"}, instrumented) = {}

\* C32 (amended): on the modern Clang path, when the UBSAN library is missing,
\* the flag derivation of every ASAN pair raises and ends the run: nothing is
\* built and no stamp is written or changed under ASAN. The other
\* configurations do not look for the library: under them the flags of every
\* dependency but libc++ (whose derivation looks for the libc++ include
\* directory) are derived all the same.
C32_UbsanProbeUnderAsan ==
    /\ [](UbsanLibMissing =>
            /\ \A i \in StepsUnder({"init_flags"}, {BUILD_TYPE_ASAN}) :
                  ~events[i].val /\ i = Len(events) /\ pc = "aborted"
            /\ StepsUnder(BuildSteps, {BUILD_TYPE_ASAN}) = {}
            /\ \A d \in DepNames : built_on[<<d, BUILD_TYPE_ASAN>>] = <<>>
            /\ \A i \in StepsUnder({"init_flags"},
                                   {BUILD_TYPE_COMMON, BUILD_TYPE_UNINSTRUMENTED,
                                    BUILD_TYPE_TSAN}) :
                  events[i].dep \notin NamedLibcxx => events[i].val)
    /\ [][UbsanLibMissing =>
            \A d \in DepNames : stamps'[<<d, BUILD_TYPE_ASAN>>] = stamps[<<d, BUILD_TYPE_ASAN>>]]_vars

\* With the UBSAN library missing, boost was built under the uninstrumented
\* configuration, and the run ended on the first flag derivation under ASAN.
C32_Witness ==
    /\ UbsanLibMissing
    /\ pc = "aborted"
    /\ <<"boost", BUILD_TYPE_UNINSTRUMENTED>> \in PairsOf({"save_build_stamp"}, {TRUE})
    /\ events[Len(events)].ev = "init_flags" /\ events[Len(events)].bt = BUILD_TYPE_ASAN
    /\ ~events[Len(events)].val

\* The flags that make a dependency use the bundled libc++.
LibcxxWiring == {"-stdlib=libc++", "-nostdinc++", "-lc++", "-lc++abi"}

\* What init_compiler_independent_flags alone gives for the configuration.
IndependentFlags ==
    FlagLists(init_compiler_independent_flags(FlagState(NoFlags, {}), build_type,
                                              set_order[build_type]).b)

\* C33: on the modern Clang path -rtlib=compiler-rt is among the linker flags
\* under every configuration. Under COMMON the setup adds nothing else: every
\* list is the compiler-independent one, the linker flags with -rtlib=compiler-rt
\* after them (and then the rpath of the installed lib directory, which
\* build_dependency adds for every pair). Under the other configurations
\* libc++ and libc++abi get none of -stdlib=libc++, -nostdinc++, -lc++ and
\* -lc++abi; every other dependency gets -lc++ and -lc++abi, its C++ flags
\* begin with the include wiring of libc++ and its linker flags with the rpath
\* and the -L flag of the lib directory of libc++.
C33_ModernPath ==
    ModernClangPath =>
        LET libcxx == InstalledDir(build_type, "libcxx")
            all == Range(flags.cxx_flags) \cup Range(flags.ld_flags)
                       \cup Range(flags.compiler_flags) \cup Range(flags.c_flags)
        IN
        /\ "-rtlib=compiler-rt" \in Range(flags.ld_flags)
        /\ build_type = BUILD_TYPE_COMMON =>
              /\ [flags EXCEPT !.ld_flags = <<>>] = [IndependentFlags EXCEPT !.ld_flags = <<>>]
              /\ flags.ld_flags =
                    IndependentFlags.ld_flags
                        \o <<"-rtlib=compiler-rt",
                             get_rpath_flag(InstalledDir(BUILD_TYPE_COMMON, "lib"))>>
        /\ build_type # BUILD_TYPE_COMMON =>
              IF DerivedDep \in NamedLibcxx \cup NamedLibcxxabi
              THEN all \cap LibcxxWiring = {}
              ELSE /\ {"-lc++", "-lc++abi"} \subseteq Range(flags.ld_flags)
                   /\ BeginsWith(flags.cxx_flags,
                                 <<"-stdlib=libc++", "-isystem",
                                   libcxx \o "/include/c++/v1", "-nostdinc++">>)
                   /\ BeginsWith(flags.ld_flags,
                                 <<get_rpath_flag(libcxx \o "/lib"), "-L" \o libcxx \o "/lib">>)

\* The flags of libc++ have been derived under TSAN with Clang 10: its linker
\* flags hold -rtlib=compiler-rt and -lunwind, and none of the libc++ wiring.
C33_Witness ==
    /\ ModernClangPath /\ build_type = BUILD_TYPE_TSAN
    /\ DerivedDep \in NamedLibcxx
    /\ {"-rtlib=compiler-rt", "-lunwind"} \subseteq Range(flags.ld_flags)
    /\ "-lc++" \notin Range(flags.ld_flags)

\* The dependency the loop of build_one_build_type is at.
CurrentDep == selected_dependencies[dep_idx]

\* The run is about to compute the stamp of the current dependency, to decide
\* on its rebuild or to save it after its build.
AboutToComputeStamp ==
    \/ /\ pc = "deps" /\ dep_idx <= Len(selected_dependencies)
       /\ BuildGroupOf(build_type) = build_group(CurrentDep)
    \/ pc = "building"

\* The three files the stamp of dep is computed from are on disk.
TrackedFilesExist(dep) ==
    {<<MAIN_PY>>, <<BUILD_SH>>, RecipeFile(module_name_final(dep))} \cap git.missing = {}

\* C34: when one of the three input files of the stamp of a dependency (the
\* main script, the driver script, its recipe module) does not exist, the step
\* that would compute the stamp ends the run and leaves every stamp as it was,
\* so that no rebuild decision is recorded and no stamp saved from such a
\* tree. The stamp is computed from the dependency and the repository alone,
\* and is stored for the pair: a step changes the stamp of the current
\* configuration only, and a configuration finds a dependency up to date only
\* by its own stamp.
C34_StampInputs ==
    /\ [][(AboutToComputeStamp /\ ~TrackedFilesExist(CurrentDep) /\ pc' # pc) =>
            pc' = "aborted" /\ stamps' = stamps]_vars
    /\ [][\A p \in AllPairs :
            stamps'[p] # stamps[p] =>
                /\ TrackedFilesExist(p[1])
                /\ p = <<CurrentDep, build_type>>
                /\ stamps'[p] = <<BuildStampOf(git, p[1])>>]_vars
    /\ [](\A i \in 1..Len(events) :
            /\ events[i].ev = "get_build_stamp" =>
                  ~events[i].val /\ i = Len(events) /\ pc = "aborted"
            /\ (events[i].ev = "should_rebuild" /\ ~events[i].val) =>
                  stamps[<<events[i].dep, events[i].bt>>] # <<>>)

\* boost was built and its stamp saved under the uninstrumented configuration,
\* its recipe module was removed, and the run ended when it came to decide on
\* boost under ASAN, whose stamp file was never written.
C34_Witness ==
    /\ pc = "aborted"
    /\ RecipeFile(module_name_final("boost")) \in git.missing
    /\ stamps[<<"boost", BUILD_TYPE_UNINSTRUMENTED>>] # <<>>
    /\ stamps[<<"boost", BUILD_TYPE_ASAN>>] = <<>>
    /\ events[Len(events)] = Event("get_build_stamp", "boost", BUILD_TYPE_ASAN, FALSE)

\* prepare_out_dirs has returned.
OutDirsPrepared == pc = "prepared"

\* C35 (as the specification states it): after prepare_out_dirs every build
\* type directory and every libcxx subdirectory has lib and include, and its
\* lib64 is a symbolic link to lib, whatever was at lib64 before.
C35_AsClaimed ==
    OutDirsPrepared =>
        \A d \in OutDirs :
            installed[d] = [lib |-> TRUE, include |-> TRUE, lib64 |-> "link_to_lib"]

\* ---------------------------------------------------------------- C36

CMakeCall == build_call.kind = "cmake"

\* A compile command read so far lacks a sanitizer option of the build type.
Lacks(command) ==
    \/ /\ build_type = BUILD_TYPE_ASAN
       /\ \/ "-fsanitize=address" \notin Range(command)
          \/ "-fsanitize=undefined" \notin Range(command)
    \/ /\ build_type = BUILD_TYPE_TSAN
       /\ "-fsanitize=thread" \notin Range(command)

SomeCommandLacks ==
    \E k \in 1..Len(build_call.checked) :
        \E i \in 1..Len(build_call.checked[k].commands) :
            Lacks(build_call.checked[k].commands[i])

\* The directories the builds of a build_with_cmake call run in.
SubBuildDirs ==
    IF build_call.call.shared_and_static
    THEN <<"build_dir/shared", "build_dir/static">>
    ELSE <<"build_dir">>

\* C36: in a CMake build under ASAN (TSAN), once a recorded compile command lacks
\* -fsanitize=address or -fsanitize=undefined (-fsanitize=thread), whatever its place
\* in compile_commands.json, the build has failed with an assertion, and what follows
\* is the abort of the run with no stamp written; a build_with_cmake call that
\* returns has read the compile commands of each of its builds (shared, then static,
\* or the only one) in the directory of that build.
C36_CompileCommandsChecked ==
    /\ [](CMakeCall /\ SomeCommandLacks
            => build_call.status = "raised" /\ build_call.error = "AssertionError")
    /\ [][CMakeCall /\ SomeCommandLacks
            => stamps' = stamps /\ pc' = "aborted" /\ events'[Len(events')].val = FALSE]_vars
    /\ [](CMakeCall /\ build_call.status = "returned"
            => /\ Len(build_call.checked) = Len(SubBuildDirs)
               /\ \A k \in 1..Len(SubBuildDirs) :
                     build_call.checked[k].cwd = SubBuildDirs[k])

\* The static sub-build of an ASAN build has recorded two compile commands, the second
\* without -fsanitize=undefined, after the shared sub-build passed the check.
C36_Witness ==
    /\ CMakeCall
    /\ build_type = BUILD_TYPE_ASAN
    /\ build_call.call.shared_and_static
    /\ Len(build_call.checked) = 2
    /\ build_call.checked[2].cwd = "build_dir/static"
    /\ build_call.checked[2].commands =
           << <<"cc", "-fsanitize=address", "-fsanitize=undefined">>,
              <<"cc", "-fsanitize=address">> >>
    /\ build_call.status = "raised"

\* ---------------------------------------------------------------- C37

ConfigureCall == build_call.kind = "configure"

ConfigureStepNames == {"./autogen.sh", "autoreconf", "./configure"}

\* The commands run so far whose program is one of names.
CommandsNamed(names) ==
    {i \in 1..Len(build_call.commands) : build_call.commands[i].cmd[1] \in names}

\* The call has raised, and the last command run was autogen, autoreconf or configure.
ConfigureStepFailed ==
    /\ ConfigureCall
    /\ build_call.status = "raised"
    /\ build_call.commands # <<>>
    /\ Len(build_call.commands) \in CommandsNamed(ConfigureStepNames)

\* C37: when autogen, autoreconf or the configure command of build_with_configure has
\* failed, the config.log files of the build tree have been logged and the error of
\* the command is the one raised; make and make install have not run, no command has
\* run twice, and the working directory is the one the call was made in, with no
\* PushDir context left open.
C37_ConfigureFailure ==
    ConfigureStepFailed
        => /\ build_call.logged = build_call.call.config_logs
           /\ build_call.error = "CalledProcessError"
           /\ CommandsNamed({"make"}) = {}
           /\ \A i, j \in 1..Len(build_call.commands) :
                 build_call.commands[i].cmd = build_call.commands[j].cmd => i = j
           /\ build_call.cwd = NoBuildCall.cwd
           /\ build_call.saved = <<>>

\* autogen and autoreconf came back and the configure command failed, in a source
\* subdirectory whose tree holds two config.log files.
C37_Witness ==
    /\ ConfigureStepFailed
    /\ Len(build_call.commands) = 3
    /\ build_call.commands[3].cmd[1] = "./configure"
    /\ build_call.commands[3].cwd = "build_dir/src"
    /\ Len(build_call.call.config_logs) = 2

\* ---------------------------------------------------------------- C38

\* The cmake command lines run so far, in order.
CMakeCommands == SelectSeq(build_call.commands, LAMBDA r : r.cmd[1] = "cmake")

\* The arguments given to the call hold a BUILD_SHARED_LIBS setting.
SettingGiven ==
    \E a \in Range(build_call.call.extra_args) \cup
             Range(build_call.call.additional_cmake_args) :
        a \in {"-DBUILD_SHARED_LIBS=", "-DBUILD_SHARED_LIBS=ON", "-DBUILD_SHARED_LIBS=OFF"}

OffGiven ==
    "-DBUILD_SHARED_LIBS=OFF" \in Range(build_call.call.extra_args) \cup
                                  Range(build_call.call.additional_cmake_args)

\* How often arg is among the arguments of a command.
Count(cmd, arg) == Cardinality({i \in 1..Len(cmd) : cmd[i] = arg})

GivenCount(arg) ==
    Count(build_call.call.extra_args \o build_call.call.additional_cmake_args, arg)

\* C38: build_with_cmake with shared_and_static=True and a -DBUILD_SHARED_LIBS= setting
\* among the assembled arguments raises ValueError with no command run; without such
\* a setting a call that returns has run cmake exactly twice, first with
\* -DBUILD_SHARED_LIBS=ON in subdirectory shared, then with -DBUILD_SHARED_LIBS=OFF in
\* subdirectory static; with shared_and_static=False a call that returns has run cmake
\* exactly once, in the build directory, and -DBUILD_SHARED_LIBS=ON was appended to the
\* arguments if and only if -DBUILD_SHARED_LIBS=OFF is not among them.
C38_SharedAndStatic ==
    CMakeCall /\ build_call.status \in {"returned", "raised"}
        => IF build_call.call.shared_and_static /\ SettingGiven
           THEN /\ build_call.status = "raised"
                /\ build_call.error = "ValueError"
                /\ build_call.commands = <<>>
           ELSE IF build_call.call.shared_and_static
           THEN /\ Len(CMakeCommands) \in 1..2
                /\ CMakeCommands[1].cwd = "build_dir/shared"
                /\ Count(CMakeCommands[1].cmd, "-DBUILD_SHARED_LIBS=ON") = 1
                /\ Count(CMakeCommands[1].cmd, "-DBUILD_SHARED_LIBS=OFF") = 0
                /\ build_call.status = "returned" => Len(CMakeCommands) = 2
                /\ Len(CMakeCommands) = 2
                      => /\ CMakeCommands[2].cwd = "build_dir/static"
                         /\ Count(CMakeCommands[2].cmd, "-DBUILD_SHARED_LIBS=OFF") = 1
                         /\ Count(CMakeCommands[2].cmd, "-DBUILD_SHARED_LIBS=ON") = 0
           ELSE /\ Len(CMakeCommands) = 1
                /\ CMakeCommands[1].cwd = "build_dir"
                /\ Count(CMakeCommands[1].cmd, "-DBUILD_SHARED_LIBS=ON") =
                       GivenCount("-DBUILD_SHARED_LIBS=ON") + (IF OffGiven THEN 0 ELSE 1)
                /\ CMakeCommands[1].cmd[Len(CMakeCommands[1].cmd)] = "-DBUILD_SHARED_LIBS=ON"
                       <=> ~OffGiven

\* A shared-and-static call has returned after its two builds.
C38_Witness ==
    /\ CMakeCall
    /\ build_call.call.shared_and_static
    /\ build_call.status = "returned"
    /\ Len(CMakeCommands) = 2
    /\ Len(build_call.commands) = 6

\* ---------------------------------------------------------------- C39

CatalogNames == Range(catalog)

\* Where a name is in the catalog built.
PlaceOf(name) == CHOOSE i \in 1..Len(catalog) : catalog[i] = name

Llvm1xNames == {"llvm1x_libunwind", "llvm1x_libcxxabi", "llvm1x_libcxx"}

\* The entries populate_dependencies adds on every platform, in the order of its text.
UnconditionalEntries ==
    <<"zlib_dependency", "lz4", "openssl", "libev", "rapidjson", "squeasel", "curl",
      "hiredis", "cqlsh", "redis_cli", "flex", "bison", "libedit", "openldap",
      "icu4c", "protobuf", "crypt_blowfish", "boost", "gflags", "glog", "gperftools",
      "gmock", "snappy", "crcutil", "libcds", "libuv", "cassandra_cpp_driver">>

CatalogBuilt == pc \notin {"start", "parsed"} /\ catalog # <<>>

ClangOnlyWithLlvm10 ==
    /\ single_compiler_type = "clang" \/ platform = "Darwin"
    /\ llvm_major_version # <<>>
    /\ llvm_major_version[1] >= 10

\* C39: the catalog populate_dependencies has built holds every name once; on Linux
\* with a clang-only compiler of LLVM major version 10 or more it holds
\* llvm1x_libunwind, llvm1x_libcxxabi and llvm1x_libcxx, one right after the other
\* in that order, and not the legacy libunwind; on Linux otherwise it holds the legacy
\* libunwind and none of the three; on another platform it holds none of the four;
\* and the entries added on every platform are all there, in one order whatever the
\* platform.
C39_Catalog ==
    CatalogBuilt
        => /\ \A i, j \in 1..Len(catalog) : catalog[i] = catalog[j] => i = j
           /\ IF platform = "Linux" /\ ClangOnlyWithLlvm10
              THEN /\ Llvm1xNames \subseteq CatalogNames
                   /\ "libunwind" \notin CatalogNames
                   /\ PlaceOf("llvm1x_libcxxabi") = PlaceOf("llvm1x_libunwind") + 1
                   /\ PlaceOf("llvm1x_libcxx") = PlaceOf("llvm1x_libcxxabi") + 1
              ELSE IF platform = "Linux"
              THEN "libunwind" \in CatalogNames /\ Llvm1xNames \cap CatalogNames = {}
              ELSE (Llvm1xNames \cup {"libunwind"}) \cap CatalogNames = {}
           /\ SelectSeq(catalog, LAMBDA d : d \in Range(UnconditionalEntries))
                  = UnconditionalEntries

\* A Linux machine with clang of LLVM 9 has its catalog, with the legacy libunwind.
C39_Witness ==
    /\ CatalogBuilt
    /\ platform = "Linux"
    /\ single_compiler_type = "clang"
    /\ llvm_major_version = <<9>>
    /\ "libunwind" \in CatalogNames
    /\ pc = "initialized"

\* ---------------------------------------------------------------- C40

BoostCall == build_call.kind = "boost"

\* project-config.jam has been written back.
ProjectConfigWritten ==
    /\ BoostCall
    /\ build_call.commands # <<>>
    /\ build_call.status \in {"running", "returned", "raised"}
    /\ build_call.status = "raised" => Len(build_call.commands) >= 2
    /\ build_call.status = "running" => build_call.todo[1].op # "rewrite"

\* The lines of ProjectConfigLines the rewrite is to leave out, each written out.
LinesLeftOut ==
    { [lead |-> "", body |-> "using gcc ;"],
      [lead |-> "    ", body |-> "using gcc ;"],
      [lead |-> "", body |-> "libraries = --with-python ;"],
      [lead |-> "  ", body |-> "libraries ="],
      [lead |-> "    ", body |-> "project : default-build <toolset>gcc ;"] }

OriginalKept ==
    SelectSeq(build_call.original_lines, LAMBDA line : line \notin LinesLeftOut)

\* The flags of the builder, each with the tag of its line, in the order given.
Tagged(tag, list) == [i \in 1..Len(list) |-> tag \o list[i]]

\* The seven lines after the lines kept.
Block == SubSeq(build_call.project_config, Len(OriginalKept) + 1,
                Len(build_call.project_config))

\* C40: once the Boost recipe has written project-config.jam back, the file is the
\* original lines in their order without those whose text after the leading white
\* space starts with "libraries =", "using gcc ;" or
\* "project : default-build <toolset>gcc ;", followed by one block of seven lines:
\* its compile flags are compiler_flags then cxx_flags, its link flags those same
\* flags then ld_flags, and the compiler type gcc8 is written as toolset gcc with
\* version 8, any other compiler type under its own name with no version.
C40_ProjectConfig ==
    ProjectConfigWritten
        => /\ Len(build_call.project_config) = Len(OriginalKept) + 7
           /\ SubSeq(build_call.project_config, 1, Len(OriginalKept)) = OriginalKept
           /\ Block[2].body = "libraries = --with-system --with-thread --with-atomic ;"
           /\ Block[4].body =
                  IF build_call.call.compiler_type = "gcc8" THEN "using gcc : 8 :"
                  ELSE "using " \o build_call.call.compiler_type \o " :  :"
           /\ Block[6].body =
                  Join(Tagged("<compileflags>", flags.compiler_flags \o flags.cxx_flags))
           /\ Block[7].body =
                  Join(Tagged("<linkflags>", flags.compiler_flags \o flags.cxx_flags
                                                 \o flags.ld_flags)) \o " ;"

\* gcc8 is the compiler, and of the two lines bootstrap.sh left the indented
\* "using gcc ;" was dropped and "using gcc : 8 ;" kept.
C40_Witness ==
    /\ ProjectConfigWritten
    /\ build_call.call.compiler_type = "gcc8"
    /\ build_call.original_lines =
           << [lead |-> "    ", body |-> "using gcc ;"],
              [lead |-> "", body |-> "using gcc : 8 ;"] >>
    /\ Len(build_call.project_config) = 8
    /\ flags.ld_flags # <<>>
    /\ build_call.status = "returned"

====
